---- MODULE Spec2Model ----
(***************************************************************************)
(* EchoLearn adaptive question delivery: the difficulty controller and the *)
(* question selector of AdaptiveLearningEngine (src/adaptive_learning.py). *)
(*                                                                         *)
(* Python's Optional values are modelled as sequences of length <= 1:      *)
(* None is <<>> and a value v is <<v>>.  List indices are 0-based as in    *)
(* the source; questions[i] of the source is questions[i + 1] here.        *)
(***************************************************************************)
EXTENDS Integers, Sequences, FiniteSets, TLC

VARIABLES
    current_difficulty,             \* AdaptiveState.current_difficulty
    consecutive_wrong_same_level,   \* AdaptiveState.consecutive_wrong_same_level
    last_answer_correct,            \* AdaptiveState.last_answer_correct (Optional[bool])
    difficulty_path,                \* AdaptiveState.difficulty_path
    performance_history,            \* AdaptiveState.performance_history
    questions,                      \* the pool handed to find_next_question
    used_indices,                   \* the used indices handed to find_next_question
    next_question,                  \* the last value find_next_question returned
    op,                             \* the operation that ran last
    args,                           \* the arguments of the last update_state call
    attempted_at,                   \* current_difficulty in force at each update_state call
    recommendations,                \* the last value update_state returned
    analytics,                      \* the outcome of the last analytics or export call
    previous_analytics,             \* the outcome before it, when the same call was repeated
    qa_index,                       \* st.session_state.qa_index
    session_complete,               \* st.session_state.session_complete
    adaptive_mode,                  \* st.session_state.adaptive_mode
    answers,                        \* answers submitted in the session so far
    used_q_indices,                 \* st.session_state.used_q_indices (a list)
    run_phase,                      \* "main" once a script run has executed its top level
    engines,                        \* the engine object of each session's latest script run
    sessions,                       \* st.session_state and the run phase of each session
    actor,                          \* the session whose script run took the last step
    session_state,                  \* the adaptive keys of st.session_state in echo.py
    confidence_level,               \* SelectiveMutismState.confidence_level
    success_streak,                 \* SelectiveMutismState.success_streak
    progress_milestones,            \* SelectiveMutismState.progress_milestones
    communication_methods_used,     \* SelectiveMutismState.communication_methods_used
    confidence_update,              \* the last value update_confidence_level returned
    evaluation                      \* the last outcome of evaluate_answer_selective_mutism

vars == << current_difficulty, consecutive_wrong_same_level, last_answer_correct,
           difficulty_path, performance_history, questions, used_indices,
           next_question, op, args, attempted_at, recommendations, analytics,
           previous_analytics, qa_index, session_complete, adaptive_mode, answers,
           used_q_indices, run_phase, engines, sessions, actor, session_state,
           confidence_level, success_streak, progress_milestones,
           communication_methods_used, confidence_update, evaluation >>

engine_vars == << current_difficulty, consecutive_wrong_same_level, last_answer_correct,
                  difficulty_path, performance_history >>

pool_vars == << questions, used_indices, next_question >>

\* the state of the several sessions of one server process
server_vars == << engines, sessions, actor >>

\* the adaptive state the legacy script keeps in st.session_state
legacy_vars == << session_state >>

\* the state of the selective mutism support
support_vars == << confidence_level, success_streak, progress_milestones,
                  communication_methods_used, confidence_update >>

\* the legacy script, the selective mutism support and the evaluator
companion_vars == << legacy_vars, support_vars, evaluation >>

session_vars == << qa_index, session_complete, adaptive_mode, answers,
                   used_q_indices, run_phase, server_vars, companion_vars >>

----------------------------------------------------------------------------
(* Program constants *)

MinDifficulty == 1
MaxDifficulty == 20
correct_threshold == 6
InitialDifficulty == 10
DropStep == 2
StreakLimit == 2
DefaultLevelDifficulty == 10
DefaultQuestionDifficulty == 10

None == << >>
Some(v) == << v >>

\* a number of the source that is an int, and one that is a float counted in halves
Whole(n) == [ num |-> n, den |-> 1 ]
Halves(h) == [ num |-> h, den |-> 2 ]

\* the adaptive keys echo.py sets when they are not in st.session_state
LegacyDefaults ==
    [ current_difficulty           |-> 10,
      last_answer_correct          |-> None,
      consecutive_wrong_same_level |-> 0,
      difficulty_path              |-> << >> ]

\* the legacy script before its first answer, a new SelectiveMutismState, and no
\* evaluation yet
NoCompanions ==
    /\ session_state = LegacyDefaults
    /\ confidence_level = Whole(1)
    /\ success_streak = 0
    /\ progress_milestones = << >>
    /\ communication_methods_used = << >>
    /\ confidence_update = None
    /\ evaluation = None

\* the server variables of a specification that runs no session
NoServer ==
    /\ engines = << >>
    /\ sessions = << >>
    /\ actor = 0

----------------------------------------------------------------------------
(* Bounds of the model *)

\* update_state calls per session in Spec
MaxHistory == 3
\* update_state calls per session in SpecDescent
MaxDescent == 12
\* correct scores per session in SpecDescent
MaxCorrect == 1
\* questions in a pool drawn by InitFind
MaxPool == 3
\* questions in a pool drawn by InitLevels
MaxLevelPool == 2
\* questions in a pool drawn by InitSession
MaxSessionPool == 3
\* answers submitted in a session of SpecSession
MaxAnswers == 4
\* answers in a history drawn by InitAnalytics
MaxRecords == 5
\* records in a history handed to create_learning_trajectory
MaxTrajectory == 4
\* answers given to the legacy controller and the engine side by side
MaxLegacyAnswers == 12
\* correct answers among them
MaxLegacyCorrect == 2
\* calls of update_confidence_level on one support object
MaxSupportCalls == 12
\* frames the interpreter allows on its stack (sys.getrecursionlimit() is 1000)
RecursionLimit == 6

\* scores submitted in Spec: wrong, correct and out of the 0..10 range
Scores == {-1, 2, 3, 6, 9, 11}
\* scores submitted in SpecDescent: the two sides of correct_threshold
DescentScores == {5, 6}
\* question_index arguments
QuestionIndices == {0}
\* question_difficulty arguments (qa.get('difficulty', 10) of the caller)
QuestionDifficulties == {8, 10}

----------------------------------------------------------------------------
(* Difficulty controller *)

MaxOf(a, b) == IF a >= b THEN a ELSE b

is_correct(score) == score >= correct_threshold

\* bug variant: the record keeps the engine's target instead of the argument
PerformanceRecordAtTarget(score, question_index, question_difficulty) ==
    [ question_index |-> question_index,
      score          |-> score,
      difficulty     |-> current_difficulty,
      correct        |-> is_correct(score) ]

\* bug variant: the score is clamped into 0..10 before it is stored
PerformanceRecordClamped(score, question_index, question_difficulty) ==
    [ question_index |-> question_index,
      score          |-> MaxOf(0, IF score <= 10 THEN score ELSE 10),
      difficulty     |-> question_difficulty,
      correct        |-> is_correct(score) ]

\* the record of one answer; its 'timestamp' (wall-clock text, read by no
\* operation of the engine) is left out
PerformanceRecord(score, question_index, question_difficulty) ==
    [ question_index |-> question_index,
      score          |-> score,
      difficulty     |-> question_difficulty,
      correct        |-> is_correct(score) ]

\* bug variant: range(d, max + 1), the current difficulty can be drawn again
higher_difficulties_from_current(d) == d .. MaxDifficulty

\* bug variant: a fixed increment, the next level only
higher_difficulties_next(d) == IF d < MaxDifficulty THEN { d + 1 } ELSE {}

higher_difficulties(d) == (d + 1) .. MaxDifficulty

\* bug variant: the drop is not clamped at the lower bound
DroppedDifficultyUnclamped(d) ==
    IF d > MinDifficulty THEN d - DropStep ELSE d

\* bug variant: the drop is 1 instead of 2
DroppedDifficultyByOne(d) ==
    IF d > MinDifficulty THEN MaxOf(MinDifficulty, d - 1) ELSE d

\* the difficulty after a drop: max(bounds[0], d - 2), taken only above bounds[0]
DroppedDifficulty(d) ==
    IF d > MinDifficulty THEN MaxOf(MinDifficulty, d - DropStep) ELSE d

_handle_correct_answer ==
    /\ consecutive_wrong_same_level' = 0
    /\ IF higher_difficulties(current_difficulty) # {}
       THEN current_difficulty' \in higher_difficulties(current_difficulty)
       ELSE current_difficulty' = current_difficulty

\* bug variant: the streak must exceed 2 before the difficulty drops
_handle_incorrect_answer_late ==
    LET streak == consecutive_wrong_same_level + 1 IN
    IF streak > StreakLimit
    THEN /\ current_difficulty' = DroppedDifficulty(current_difficulty)
         /\ consecutive_wrong_same_level' = 0
    ELSE /\ consecutive_wrong_same_level' = streak
         /\ current_difficulty' = current_difficulty

\* bug variant: the streak is reset only when the difficulty is lowered
_handle_incorrect_answer_keep_streak ==
    LET streak == consecutive_wrong_same_level + 1 IN
    IF streak >= StreakLimit /\ current_difficulty > MinDifficulty
    THEN /\ current_difficulty' = DroppedDifficulty(current_difficulty)
         /\ consecutive_wrong_same_level' = 0
    ELSE /\ consecutive_wrong_same_level' = streak
         /\ current_difficulty' = current_difficulty

\* bug variant: the streak is not reset when the difficulty drops
_handle_incorrect_answer_no_reset ==
    LET streak == consecutive_wrong_same_level + 1 IN
    IF streak >= StreakLimit
    THEN /\ current_difficulty' = DroppedDifficulty(current_difficulty)
         /\ consecutive_wrong_same_level' = streak
    ELSE /\ consecutive_wrong_same_level' = streak
         /\ current_difficulty' = current_difficulty

\* bug variant: the streak is tested before it is incremented
_handle_incorrect_answer_test_first ==
    IF consecutive_wrong_same_level >= StreakLimit
    THEN /\ current_difficulty' = DroppedDifficulty(current_difficulty)
         /\ consecutive_wrong_same_level' = 0
    ELSE /\ consecutive_wrong_same_level' = consecutive_wrong_same_level + 1
         /\ current_difficulty' = current_difficulty

_handle_incorrect_answer ==
    LET streak == consecutive_wrong_same_level + 1 IN
    IF streak >= StreakLimit
    THEN /\ current_difficulty' = DroppedDifficulty(current_difficulty)
         /\ consecutive_wrong_same_level' = 0
    ELSE /\ consecutive_wrong_same_level' = streak
         /\ current_difficulty' = current_difficulty

\* records[-n:]
LastRecords(records, n) ==
    IF Len(records) <= n THEN records
    ELSE SubSeq(records, Len(records) - n + 1, Len(records))

\* [p['score'] for p in records]
ScoresOf(records) == [ k \in 1 .. Len(records) |-> records[k].score ]

RECURSIVE SumSeq(_)
SumSeq(seq) == IF seq = << >> THEN 0 ELSE Head(seq) + SumSeq(Tail(seq))

\* bug variant: the first three records are read instead of the last three
_is_ready_first_three(history) ==
    IF Len(history) < 3
    THEN FALSE
    ELSE LET recent_scores == ScoresOf(SubSeq(history, 1, 3)) IN
         \A k \in 1 .. Len(recent_scores) : recent_scores[k] >= 8

_is_ready_for_higher_difficulty(history) ==
    IF Len(history) < 3
    THEN FALSE
    ELSE LET recent_scores == ScoresOf(LastRecords(history, 3)) IN
         \A k \in 1 .. Len(recent_scores) : recent_scores[k] >= 8

\* bug variant: any() instead of all()
_needs_reinforcement_any(history) ==
    IF Len(history) < 3
    THEN FALSE
    ELSE LET recent_scores == ScoresOf(LastRecords(history, 3)) IN
         \E k \in 1 .. Len(recent_scores) : recent_scores[k] < 6

_needs_reinforcement(history) ==
    IF Len(history) < 3
    THEN FALSE
    ELSE LET recent_scores == ScoresOf(LastRecords(history, 3)) IN
         \A k \in 1 .. Len(recent_scores) : recent_scores[k] < 6

\* bug variant: the first half takes the middle score (half = (len + 1) // 2)
_analyze_learning_trend_uneven(history) ==
    IF Len(history) < 5
    THEN "insufficient_data"
    ELSE LET recent_scores == ScoresOf(LastRecords(history, 5))
             half == (Len(recent_scores) + 1) \div 2
             rest == Len(recent_scores) - half
             first_sum == SumSeq(SubSeq(recent_scores, 1, half))
             second_sum == SumSeq(SubSeq(recent_scores, half + 1, Len(recent_scores)))
         IN  IF second_sum * half > first_sum * rest + half * rest
             THEN "improving"
             ELSE IF second_sum * half < first_sum * rest - half * rest
                  THEN "declining"
                  ELSE "stable"

\* the two means are compared exactly: with half = len // 2 and rest = len - half,
\* second_half > first_half + 1 is sum2 / rest > sum1 / half + 1, which is
\* sum2 * half > sum1 * rest + half * rest (half and rest are positive)
_analyze_learning_trend(history) ==
    IF Len(history) < 5
    THEN "insufficient_data"
    ELSE LET recent_scores == ScoresOf(LastRecords(history, 5))
             half == Len(recent_scores) \div 2
             rest == Len(recent_scores) - half
             first_sum == SumSeq(SubSeq(recent_scores, 1, half))
             second_sum == SumSeq(SubSeq(recent_scores, half + 1, Len(recent_scores)))
         IN  IF Len(recent_scores) >= 3
             THEN IF second_sum * half > first_sum * rest + half * rest
                  THEN "improving"
                  ELSE IF second_sum * half < first_sum * rest - half * rest
                       THEN "declining"
                       ELSE "stable"
             ELSE "stable"

\* the recommendations of an engine in the given state
_get_recommendations(difficulty, streak, last_correct, history) ==
    [ target_difficulty           |-> difficulty,
      consecutive_wrong           |-> streak,
      last_correct                |-> last_correct,
      ready_for_higher_difficulty |-> _is_ready_for_higher_difficulty(history),
      needs_reinforcement         |-> _needs_reinforcement(history),
      learning_trend              |-> _analyze_learning_trend(history) ]

\* bug variant: insert(0, performance_record)
PrependRecord(records, performance_record) == << performance_record >> \o records

\* performance_history.append(performance_record)
AppendRecord(records, performance_record) == Append(records, performance_record)

\* bug variant: the recommendations are computed before the state is updated
EngineUpdateStale(score, question_index, question_difficulty) ==
    LET performance_record ==
            PerformanceRecord(score, question_index, question_difficulty) IN
    /\ last_answer_correct' = Some(is_correct(score))
    /\ performance_history' = AppendRecord(performance_history, performance_record)
    /\ difficulty_path' = AppendRecord(difficulty_path, performance_record)
    /\ IF is_correct(score) THEN _handle_correct_answer ELSE _handle_incorrect_answer
    /\ recommendations' = Some(_get_recommendations(
                               current_difficulty, consecutive_wrong_same_level,
                               last_answer_correct, performance_history'))
    /\ args' = Some([ score |-> score, question_index |-> question_index,
                      question_difficulty |-> question_difficulty ])
    /\ attempted_at' = Append(attempted_at, current_difficulty)

\* bug variant: the path records the difficulty the engine was at, not the question's
EngineUpdatePathOfTargets(score, question_index, question_difficulty) ==
    LET performance_record ==
            PerformanceRecord(score, question_index, question_difficulty) IN
    /\ last_answer_correct' = Some(is_correct(score))
    /\ performance_history' = AppendRecord(performance_history, performance_record)
    /\ difficulty_path' = AppendRecord(difficulty_path,
                              PerformanceRecord(score, question_index, current_difficulty))
    /\ IF is_correct(score) THEN _handle_correct_answer ELSE _handle_incorrect_answer
    /\ recommendations' = Some(_get_recommendations(
                               current_difficulty', consecutive_wrong_same_level',
                               last_answer_correct', performance_history'))
    /\ args' = Some([ score |-> score, question_index |-> question_index,
                      question_difficulty |-> question_difficulty ])
    /\ attempted_at' = Append(attempted_at, current_difficulty)

\* update_state as the engine runs it: the state, and what the call returns
EngineUpdate(score, question_index, question_difficulty) ==
    LET performance_record ==
            PerformanceRecord(score, question_index, question_difficulty) IN
    /\ last_answer_correct' = Some(is_correct(score))
    /\ performance_history' = AppendRecord(performance_history, performance_record)
    /\ difficulty_path' = AppendRecord(difficulty_path, performance_record)
    /\ IF is_correct(score) THEN _handle_correct_answer ELSE _handle_incorrect_answer
    /\ recommendations' = Some(_get_recommendations(
                               current_difficulty', consecutive_wrong_same_level',
                               last_answer_correct', performance_history'))
    /\ args' = Some([ score |-> score, question_index |-> question_index,
                      question_difficulty |-> question_difficulty ])
    /\ attempted_at' = Append(attempted_at, current_difficulty)

update_state(score, question_index, question_difficulty) ==
    /\ EngineUpdate(score, question_index, question_difficulty)
    /\ op' = "update_state"
    /\ UNCHANGED << pool_vars, analytics, previous_analytics, session_vars >>

\* bug variant: the history is cleared and the difficulty is kept
reset_state_keep_difficulty ==
    /\ current_difficulty' = current_difficulty
    /\ consecutive_wrong_same_level' = 0
    /\ last_answer_correct' = None
    /\ difficulty_path' = << >>
    /\ performance_history' = << >>
    /\ op' = "reset_state"
    /\ args' = None
    /\ attempted_at' = << >>
    /\ UNCHANGED << pool_vars, recommendations, analytics, previous_analytics,
                    session_vars >>

reset_state ==
    /\ current_difficulty' = InitialDifficulty
    /\ consecutive_wrong_same_level' = 0
    /\ last_answer_correct' = None
    /\ difficulty_path' = << >>
    /\ performance_history' = << >>
    /\ op' = "reset_state"
    /\ args' = None
    /\ attempted_at' = << >>
    /\ UNCHANGED << pool_vars, recommendations, analytics, previous_analytics,
                    session_vars >>

----------------------------------------------------------------------------
(* Specifications of the difficulty controller *)

Init ==
    /\ current_difficulty = InitialDifficulty
    /\ consecutive_wrong_same_level = 0
    /\ last_answer_correct = None
    /\ difficulty_path = << >>
    /\ performance_history = << >>
    /\ questions = << >>
    /\ used_indices = {}
    /\ next_question = None
    /\ op = "init"
    /\ args = None
    /\ attempted_at = << >>
    /\ recommendations = None
    /\ analytics = None
    /\ previous_analytics = None
    /\ qa_index = 0
    /\ session_complete = FALSE
    /\ adaptive_mode = TRUE
    /\ answers = 0
    /\ used_q_indices = << >>
    /\ run_phase = "idle"
    /\ NoServer
    /\ NoCompanions

Submit ==
    /\ Len(performance_history) < MaxHistory
    /\ \E score \in Scores, question_index \in QuestionIndices,
          question_difficulty \in QuestionDifficulties :
            update_state(score, question_index, question_difficulty)

Reset ==
    /\ performance_history # << >>
    /\ reset_state

Next == Submit \/ Reset

Spec == Init /\ [][Next]_vars

CorrectCount ==
    Cardinality({ k \in 1 .. Len(performance_history) : performance_history[k].correct })

SubmitDescent ==
    /\ Len(performance_history) < MaxDescent
    /\ \E score \in DescentScores :
        /\ is_correct(score) => CorrectCount < MaxCorrect
        /\ update_state(score, 0, current_difficulty)

NextDescent == SubmitDescent \/ Reset

SpecDescent == Init /\ [][NextDescent]_vars

----------------------------------------------------------------------------
(* Question selector *)

\* a question of the pool: only the 'difficulty' and 'level' keys are read
Question(difficulty, level) == [ difficulty |-> difficulty, level |-> level ]

Abs(n) == IF n < 0 THEN -n ELSE n

\* bug variant: an unknown level is taken for a Basic one
_get_difficulty_from_level_unknown_basic(level) ==
    CASE level \in {"Basic", "Easy"}            -> 3
      [] level \in {"Intermediate", "Moderate"} -> 8
      [] level \in {"Advanced", "Difficult"}    -> 13
      [] level = "Expert"                       -> 18
      [] OTHER                                  -> 3

_get_difficulty_from_level(level) ==
    CASE level \in {"Basic", "Easy"}            -> 3
      [] level \in {"Intermediate", "Moderate"} -> 8
      [] level \in {"Advanced", "Difficult"}    -> 13
      [] level = "Expert"                       -> 18
      [] OTHER                                  -> DefaultLevelDifficulty

\* q.get('difficulty', self._get_difficulty_from_level(q.get('level', 'Basic')))
EffectiveDifficulty(q) ==
    IF q.difficulty # None
    THEN q.difficulty[1]
    ELSE _get_difficulty_from_level(IF q.level # None THEN q.level[1] ELSE "Basic")

\* float('inf'): every distance is below it
Infinity == -1

\* bug variant: diff <= best_diff, the last of the nearest wins
CloserOrEqual(diff, best_diff) == best_diff = Infinity \/ diff <= best_diff

\* diff < best_diff
CloserThan(diff, best_diff) == best_diff = Infinity \/ diff < best_diff

\* bug variant: the first loop does not skip used indices
RECURSIVE ExactMatchAnyFrom(_, _, _, _)
ExactMatchAnyFrom(qs, used, target_difficulty, i) ==
    IF i >= Len(qs)
    THEN None
    ELSE IF EffectiveDifficulty(qs[i + 1]) = target_difficulty
         THEN Some(i)
         ELSE ExactMatchAnyFrom(qs, used, target_difficulty, i + 1)

\* first loop: the first unused index whose difficulty is the target, from index i on
RECURSIVE ExactMatchFrom(_, _, _, _)
ExactMatchFrom(qs, used, target_difficulty, i) ==
    IF i >= Len(qs)
    THEN None
    ELSE IF i \notin used /\ EffectiveDifficulty(qs[i + 1]) = target_difficulty
         THEN Some(i)
         ELSE ExactMatchFrom(qs, used, target_difficulty, i + 1)

\* bug variant: the second loop does not skip used indices
RECURSIVE ClosestMatchAnyFrom(_, _, _, _, _, _)
ClosestMatchAnyFrom(qs, used, target_difficulty, i, best_match, best_diff) ==
    IF i >= Len(qs)
    THEN best_match
    ELSE LET qa_difficulty == EffectiveDifficulty(qs[i + 1])
             diff == Abs(qa_difficulty - target_difficulty) IN
         IF CloserThan(diff, best_diff)
         THEN ClosestMatchAnyFrom(qs, used, target_difficulty, i + 1, Some(i), diff)
         ELSE ClosestMatchAnyFrom(qs, used, target_difficulty, i + 1,
                                  best_match, best_diff)

\* second loop, from index i on with the best match found so far
RECURSIVE ClosestMatchFrom(_, _, _, _, _, _)
ClosestMatchFrom(qs, used, target_difficulty, i, best_match, best_diff) ==
    IF i >= Len(qs)
    THEN best_match
    ELSE IF i \notin used
         THEN LET qa_difficulty == EffectiveDifficulty(qs[i + 1])
                  diff == Abs(qa_difficulty - target_difficulty) IN
              IF CloserThan(diff, best_diff)
              THEN ClosestMatchFrom(qs, used, target_difficulty, i + 1, Some(i), diff)
              ELSE ClosestMatchFrom(qs, used, target_difficulty, i + 1,
                                    best_match, best_diff)
         ELSE ClosestMatchFrom(qs, used, target_difficulty, i + 1, best_match, best_diff)

\* bug variant: no nearest-match fallback
FindExactOnly(qs, used, target_difficulty) ==
    ExactMatchFrom(qs, used, target_difficulty, 0)

FindNextQuestion(qs, used, target_difficulty) ==
    LET exact == ExactMatchFrom(qs, used, target_difficulty, 0) IN
    IF exact # None
    THEN exact
    ELSE ClosestMatchFrom(qs, used, target_difficulty, 0, None, Infinity)

\* bug variant: the index returned is added to the used indices it was given
find_next_question_marking ==
    LET found == FindNextQuestion(questions, used_indices, current_difficulty) IN
    /\ next_question' = found
    /\ used_indices' = (IF found = None THEN used_indices
                        ELSE used_indices \cup { found[1] })
    /\ op' = "find_next_question"
    /\ UNCHANGED << engine_vars, questions, args, attempted_at,
                    recommendations, analytics, previous_analytics, session_vars >>

find_next_question ==
    /\ next_question' = FindNextQuestion(questions, used_indices, current_difficulty)
    /\ op' = "find_next_question"
    /\ UNCHANGED << engine_vars, questions, used_indices, args, attempted_at,
                    recommendations, analytics, previous_analytics, session_vars >>

----------------------------------------------------------------------------
(* Specification of the question selector: every pool, used set and target *)

QuestionKinds ==
    { Question(Some(3), Some("Expert")),
      Question(Some(8), None),
      Question(None, Some("Advanced")),
      Question(None, Some("Tricky")),
      Question(None, None) }

\* the pool of the selector scenario: difficulties [3, 8, 8, 13, 18]
ScenarioPool ==
    << Question(Some(3), None), Question(Some(8), None), Question(Some(8), None),
       Question(Some(13), None), Question(Some(18), None) >>

Pools ==
    UNION { [ 1 .. n -> QuestionKinds ] : n \in 0 .. MaxPool } \cup { ScenarioPool }

InitFind ==
    /\ current_difficulty \in MinDifficulty .. MaxDifficulty
    /\ consecutive_wrong_same_level = 0
    /\ last_answer_correct = None
    /\ difficulty_path = << >>
    /\ performance_history = << >>
    /\ questions \in Pools
    /\ used_indices \in SUBSET (0 .. Len(questions) - 1)
    /\ next_question = None
    /\ op = "init"
    /\ args = None
    /\ attempted_at = << >>
    /\ recommendations = None
    /\ analytics = None
    /\ previous_analytics = None
    /\ qa_index = 0
    /\ session_complete = FALSE
    /\ adaptive_mode = TRUE
    /\ answers = 0
    /\ used_q_indices = << >>
    /\ run_phase = "idle"
    /\ NoServer
    /\ NoCompanions

NextFind == find_next_question

SpecFind == InitFind /\ [][NextFind]_vars

----------------------------------------------------------------------------
(* Specification of the level table: pools of questions with every level label, *)
(* with and without a numeric difficulty, none of them used                     *)

LevelLabels ==
    { "Basic", "Easy", "Intermediate", "Moderate", "Advanced", "Difficult", "Expert",
      "Tricky" }

LevelKinds ==
    { Question(difficulty, Some(level)) :
          difficulty \in { None, Some(5) }, level \in LevelLabels }

LevelPools == UNION { [ 1 .. n -> LevelKinds ] : n \in 1 .. MaxLevelPool }

InitLevels ==
    /\ current_difficulty \in MinDifficulty .. MaxDifficulty
    /\ consecutive_wrong_same_level = 0
    /\ last_answer_correct = None
    /\ difficulty_path = << >>
    /\ performance_history = << >>
    /\ questions \in LevelPools
    /\ used_indices = {}
    /\ next_question = None
    /\ op = "init"
    /\ args = None
    /\ attempted_at = << >>
    /\ recommendations = None
    /\ analytics = None
    /\ previous_analytics = None
    /\ qa_index = 0
    /\ session_complete = FALSE
    /\ adaptive_mode = TRUE
    /\ answers = 0
    /\ used_q_indices = << >>
    /\ run_phase = "idle"
    /\ NoServer
    /\ NoCompanions

NextLevels == find_next_question

SpecLevels == InitLevels /\ [][NextLevels]_vars

----------------------------------------------------------------------------
(* Session analytics *)

\* the outcome of a call: a returned value, or the exception it raised
Returns(value) == [ raised |-> None, value |-> Some(value) ]
Raises(exception) == [ raised |-> Some(exception), value |-> None ]

\* a / b of the source, kept exact
Ratio(a, b) == [ num |-> a, den |-> b ]

\* sum(1 for p in records if p['correct'])
CorrectAnswers(records) ==
    Cardinality({ k \in 1 .. Len(records) : records[k].correct })

\* [p['difficulty'] for p in records]
DifficultiesOf(records) == [ k \in 1 .. Len(records) |-> records[k].difficulty ]

\* the messages _generate_recommendations builds from the analytics it is given
RecommendationsFor(a) ==
    ( IF a.accuracy_rate.num >= 80 * a.accuracy_rate.den
      THEN << "Excellent performance!" >>
      ELSE IF a.accuracy_rate.num >= 60 * a.accuracy_rate.den
           THEN << "Good progress!" >>
           ELSE << "Consider reviewing fundamental concepts" >> )
    \o ( IF a.learning_trend = "improving"
         THEN << "Your performance is improving" >>
         ELSE IF a.learning_trend = "declining"
              THEN << "You might benefit from reviewing previous topics" >>
              ELSE << >> )
    \o ( IF consecutive_wrong_same_level >= 2
         THEN << "The system will adjust to help you succeed" >>
         ELSE << >> )

\* get_learning_analytics and _generate_recommendations call each other; depth is
\* the number of frames on the interpreter's stack, which raises RecursionError
\* beyond RecursionLimit
RECURSIVE GetLearningAnalytics(_)
RECURSIVE GenerateRecommendations(_)

\* bug variant: no early return for an empty history, the accuracy divides by
\* total_questions = 0
GetLearningAnalyticsUnguarded(depth) ==
    IF depth > RecursionLimit
    THEN Raises("RecursionError")
    ELSE IF Len(performance_history) = 0
         THEN Raises("ZeroDivisionError")
         ELSE LET total_questions == Len(performance_history)
                  correct_answers == CorrectAnswers(performance_history)
                  recs == GenerateRecommendations(depth + 1)
              IN  IF recs.raised # None
                  THEN recs
                  ELSE Returns([ total_questions |-> total_questions,
                                 accuracy_rate   |-> Ratio(correct_answers * 100,
                                                           total_questions),
                                 average_score   |->
                                     Ratio(SumSeq(ScoresOf(performance_history)),
                                           total_questions),
                                 difficulty_progression |->
                                     DifficultiesOf(performance_history),
                                 learning_trend  |->
                                     _analyze_learning_trend(performance_history),
                                 recommendations |-> recs.value[1] ])

GetLearningAnalytics(depth) ==
    IF depth > RecursionLimit
    THEN Raises("RecursionError")
    ELSE IF performance_history = << >>
         THEN Returns([ total_questions        |-> 0,
                        accuracy_rate          |-> Ratio(0, 1),
                        average_score          |-> Ratio(0, 1),
                        difficulty_progression |-> << >>,
                        learning_trend         |-> "no_data",
                        recommendations        |-> << >> ])
         ELSE LET total_questions == Len(performance_history)
                  correct_answers == CorrectAnswers(performance_history)
                  recs == GenerateRecommendations(depth + 1)
              IN  IF recs.raised # None
                  THEN recs
                  ELSE Returns([ total_questions |-> total_questions,
                                 accuracy_rate   |-> Ratio(correct_answers * 100,
                                                           total_questions),
                                 average_score   |->
                                     Ratio(SumSeq(ScoresOf(performance_history)),
                                           total_questions),
                                 difficulty_progression |->
                                     DifficultiesOf(performance_history),
                                 learning_trend  |->
                                     _analyze_learning_trend(performance_history),
                                 recommendations |-> recs.value[1] ])

GenerateRecommendations(depth) ==
    IF depth > RecursionLimit
    THEN Raises("RecursionError")
    ELSE LET a == GetLearningAnalytics(depth + 1) IN
         IF a.raised # None THEN a ELSE Returns(RecommendationsFor(a.value[1]))

ExportLearningData(depth) ==
    IF depth > RecursionLimit
    THEN Raises("RecursionError")
    ELSE LET a == GetLearningAnalytics(depth + 1) IN
         IF a.raised # None
         THEN a
         ELSE Returns([ state |->
                          [ current_difficulty |-> current_difficulty,
                            consecutive_wrong_same_level |-> consecutive_wrong_same_level,
                            last_answer_correct |-> last_answer_correct ],
                        performance_history |-> performance_history,
                        difficulty_path     |-> difficulty_path,
                        analytics           |-> a.value[1] ])

\* bug variant: the analytics consume the streak they report on
get_learning_analytics_consuming ==
    /\ analytics' = Some(GetLearningAnalytics(1))
    /\ previous_analytics' = (IF op = "get_learning_analytics" THEN analytics ELSE None)
    /\ op' = "get_learning_analytics"
    /\ consecutive_wrong_same_level' = 0
    /\ UNCHANGED << current_difficulty, last_answer_correct, difficulty_path,
                    performance_history, pool_vars, args, attempted_at,
                    recommendations, session_vars >>

get_learning_analytics ==
    /\ analytics' = Some(GetLearningAnalytics(1))
    /\ previous_analytics' = (IF op = "get_learning_analytics" THEN analytics ELSE None)
    /\ op' = "get_learning_analytics"
    /\ UNCHANGED << engine_vars, pool_vars, args, attempted_at, recommendations,
                    session_vars >>

export_learning_data ==
    /\ analytics' = Some(ExportLearningData(1))
    /\ previous_analytics' = (IF op = "export_learning_data" THEN analytics ELSE None)
    /\ op' = "export_learning_data"
    /\ UNCHANGED << engine_vars, pool_vars, args, attempted_at, recommendations,
                    session_vars >>

----------------------------------------------------------------------------
(* Specification of the analytics: every history up to MaxRecords answers, then *)
(* one more answer, with the analytics callable in every state                *)

\* the scores of the drawn histories: wrong, correct below 8, 8 and above
AnalyticsScores == {5, 7, 8, 10}

\* the scores of the trend scenario
ScenarioScores == << 8, 9, 10, 9, 8 >>

ScoreHistories ==
    UNION { [ 1 .. n -> AnalyticsScores ] : n \in 0 .. MaxRecords }
        \cup { ScenarioScores, SubSeq(ScenarioScores, 1, 4) }

\* the history update_state builds from the given scores
RecordsOf(scores) ==
    [ k \in 1 .. Len(scores) |-> PerformanceRecord(scores[k], k - 1, 10) ]

\* the engine after update_state was called with each of the given scores, every
\* ascent having drawn the highest difficulty
RECURSIVE Replayed(_)
Replayed(scores) ==
    IF scores = << >>
    THEN [ difficulty |-> InitialDifficulty, streak |-> 0, attempted |-> << >> ]
    ELSE LET before == Replayed(SubSeq(scores, 1, Len(scores) - 1))
             attempted == Append(before.attempted, before.difficulty)
         IN  IF is_correct(scores[Len(scores)])
             THEN [ difficulty |-> IF higher_difficulties(before.difficulty) # {}
                                   THEN MaxDifficulty
                                   ELSE before.difficulty,
                    streak     |-> 0,
                    attempted  |-> attempted ]
             ELSE IF before.streak + 1 >= StreakLimit
                  THEN [ difficulty |-> DroppedDifficulty(before.difficulty),
                         streak     |-> 0,
                         attempted  |-> attempted ]
                  ELSE [ difficulty |-> before.difficulty,
                         streak     |-> before.streak + 1,
                         attempted  |-> attempted ]

InitAnalytics ==
    \E scores \in ScoreHistories :
        /\ current_difficulty = Replayed(scores).difficulty
        /\ consecutive_wrong_same_level = Replayed(scores).streak
        /\ last_answer_correct =
              (IF scores = << >> THEN None ELSE Some(is_correct(scores[Len(scores)])))
        /\ difficulty_path = RecordsOf(scores)
        /\ performance_history = RecordsOf(scores)
        /\ questions = << >>
        /\ used_indices = {}
        /\ next_question = None
        /\ op = "init"
        /\ args = None
        /\ attempted_at = Replayed(scores).attempted
        /\ recommendations = None
        /\ analytics = None
        /\ previous_analytics = None
        /\ qa_index = 0
        /\ session_complete = FALSE
        /\ adaptive_mode = TRUE
        /\ answers = 0
        /\ used_q_indices = << >>
        /\ run_phase = "idle"
        /\ NoServer
        /\ NoCompanions

\* one more answer on top of the drawn history
SubmitNext ==
    /\ recommendations = None
    /\ \E score \in AnalyticsScores :
          update_state(score, Len(performance_history), 10)

NextAnalytics ==
    \/ SubmitNext
    \/ get_learning_analytics
    \/ export_learning_data
    \/ Reset

SpecAnalytics == InitAnalytics /\ [][NextAnalytics]_vars

----------------------------------------------------------------------------
(* The viva session of echo_refactored.py: an answer is submitted for the      *)
(* question shown, and the next question is chosen                            *)

\* qa.get('difficulty', 10)
QuestionDifficultyArg(qa) ==
    IF qa.difficulty # None THEN qa.difficulty[1] ELSE DefaultQuestionDifficulty

\* next((i for i, q in enumerate(all_qas) if i not in used_q_indices), None)
NextUnanswered(qs, used) ==
    LET unanswered == { i \in 0 .. Len(qs) - 1 : i \notin used } IN
    IF unanswered = {}
    THEN None
    ELSE Some(CHOOSE i \in unanswered : \A j \in unanswered : i <= j)

\* the elements of a list
Range(seq) == { seq[k] : k \in 1 .. Len(seq) }

\* bug variant: the index is appended whether or not it is in the list
AppendAlways(used, current) == Append(used, current)

\* if current not in used_q_indices: used_q_indices.append(current)
AppendIfNew(used, current) ==
    IF current \notin Range(used) THEN Append(used, current) ELSE used

\* bug variant: the session is complete one answer early
AllAnsweredEarly(used, qs) == Len(used) + 1 >= Len(qs)

\* len(used_q_indices) >= len(all_qas)
AllAnswered(used, qs) == Len(used) >= Len(qs)

\* handle_next_question_logic, with used_q_indices as the caller has left it
handle_next_question_logic(score, qa, current, used) ==
    IF AllAnswered(used, questions)
    THEN /\ session_complete' = TRUE
         /\ UNCHANGED << engine_vars, next_question, args, attempted_at,
                         recommendations, qa_index >>
    ELSE IF adaptive_mode
         THEN /\ EngineUpdate(score, current, QuestionDifficultyArg(qa))
              /\ next_question' =
                    FindNextQuestion(questions, Range(used), current_difficulty')
              /\ qa_index' = (IF next_question' # None THEN next_question'[1]
                                                      ELSE qa_index)
              /\ UNCHANGED session_complete
         ELSE /\ qa_index' = (IF NextUnanswered(questions, Range(used)) # None
                              THEN NextUnanswered(questions, Range(used))[1]
                              ELSE qa_index)
              /\ UNCHANGED << engine_vars, next_question, args, attempted_at,
                              recommendations, session_complete >>

\* the top level of the script, which Streamlit executes from its first line on
\* every run of the script (every interaction and every st.rerun()): the name
\* adaptive_engine is bound to a newly constructed engine, then main() is called
script_run ==
    /\ current_difficulty' = InitialDifficulty
    /\ consecutive_wrong_same_level' = 0
    /\ last_answer_correct' = None
    /\ difficulty_path' = << >>
    /\ performance_history' = << >>
    /\ args' = None
    /\ attempted_at' = << >>
    /\ run_phase' = "main"
    /\ op' = "script_run"
    /\ UNCHANGED << pool_vars, recommendations, analytics, previous_analytics,
                    qa_index, session_complete, adaptive_mode, answers,
                    used_q_indices, server_vars, companion_vars >>

\* handle_text_input with a non-empty answer that the evaluator scored
\* (handle_audio_answer keeps used_q_indices and calls handle_next_question_logic
\* in the same way)
handle_text_input(score) ==
    LET current == qa_index
        qa == questions[current + 1]
        used == AppendIfNew(used_q_indices, current)
    IN  /\ used_q_indices' = used
        /\ used_indices' = Range(used)
        /\ answers' = answers + 1
        /\ handle_next_question_logic(score, qa, current, used)
        /\ op' = "handle_text_input"
        /\ run_phase' = "idle"
        /\ UNCHANGED << questions, adaptive_mode, analytics, previous_analytics,
                        server_vars, companion_vars >>

\* display_question_navigation: the Previous (step = -1) and Next (step = 1) buttons
display_question_navigation(step) ==
    /\ qa_index + step \in 0 .. Len(questions) - 1
    /\ qa_index' = qa_index + step
    /\ op' = "display_question_navigation"
    /\ run_phase' = "idle"
    /\ UNCHANGED << engine_vars, pool_vars, args, attempted_at, recommendations,
                    analytics, previous_analytics, session_complete, adaptive_mode,
                    answers, used_q_indices, server_vars, companion_vars >>

\* the Start New Session button: clear_session_state deletes the session keys, which
\* initialize_session_state sets to their defaults on the next run, and resets the
\* engine of this run
clear_session_state ==
    /\ questions' = << >>
    /\ qa_index' = 0
    /\ used_q_indices' = << >>
    /\ used_indices' = {}
    /\ adaptive_mode' = TRUE
    /\ session_complete' = FALSE
    /\ answers' = 0
    /\ current_difficulty' = InitialDifficulty
    /\ consecutive_wrong_same_level' = 0
    /\ last_answer_correct' = None
    /\ difficulty_path' = << >>
    /\ performance_history' = << >>
    /\ args' = None
    /\ attempted_at' = << >>
    /\ next_question' = None
    /\ op' = "clear_session_state"
    /\ run_phase' = "idle"
    /\ UNCHANGED << recommendations, analytics, previous_analytics, server_vars, companion_vars >>

\* a question session is started: all_qas = questions, qa_index = 0,
\* used_q_indices = []
start_session(qs) ==
    /\ questions' = qs
    /\ qa_index' = 0
    /\ used_q_indices' = << >>
    /\ used_indices' = {}
    /\ answers' = 0
    /\ op' = "start_session"
    /\ run_phase' = "idle"
    /\ UNCHANGED << engine_vars, next_question, args, attempted_at, recommendations,
                    analytics, previous_analytics, session_complete, adaptive_mode,
                    server_vars, companion_vars >>

\* the scores of the evaluator, which clamps them into 0..10
SessionScores == {3, 7}

SessionQuestionKinds ==
    { Question(Some(8), None),
      Question(None, Some("Advanced")) }

SessionPools ==
    UNION { [ 1 .. n -> SessionQuestionKinds ] : n \in 1 .. MaxSessionPool }

InitSession ==
    /\ current_difficulty = InitialDifficulty
    /\ consecutive_wrong_same_level = 0
    /\ last_answer_correct = None
    /\ difficulty_path = << >>
    /\ performance_history = << >>
    /\ questions \in SessionPools
    /\ used_indices = {}
    /\ next_question = None
    /\ op = "init"
    /\ args = None
    /\ attempted_at = << >>
    /\ recommendations = None
    /\ analytics = None
    /\ previous_analytics = None
    /\ qa_index = 0
    /\ session_complete = FALSE
    /\ adaptive_mode \in BOOLEAN
    /\ answers = 0
    /\ used_q_indices = << >>
    /\ run_phase = "idle"
    /\ NoServer
    /\ NoCompanions

\* an interaction of the learner starts a run of the script
ScriptRun ==
    /\ run_phase = "idle"
    /\ script_run

\* main() of that run finds the submitted answer of the question shown
SubmitAnswer ==
    /\ run_phase = "main"
    /\ questions # << >>
    /\ answers < MaxAnswers
    /\ \E score \in SessionScores : handle_text_input(score)

\* main() of that run finds the Previous or the Next button clicked
Navigate ==
    /\ run_phase = "main"
    /\ questions # << >>
    /\ \E step \in {-1, 1} : display_question_navigation(step)

\* main() of that run finds the Start New Session button clicked
StartNewSession ==
    /\ run_phase = "main"
    /\ questions # << >>
    /\ clear_session_state

\* main() of that run loads the questions of a new session
StartSession ==
    /\ run_phase = "main"
    /\ \E qs \in SessionPools : start_session(qs)

NextSession ==
    \/ ScriptRun
    \/ SubmitAnswer
    \/ Navigate
    \/ StartNewSession
    \/ StartSession

SpecSession == InitSession /\ [][NextSession]_vars

----------------------------------------------------------------------------
(* Several learner sessions on one server: Streamlit keeps one st.session_state  *)
(* per session and executes the script of each run in a namespace of its own,   *)
(* so every run binds its own adaptive_engine                                   *)

SessionIds == {1, 2}

\* all_qas of every session
ServerQuestions == << Question(Some(8), None), Question(None, Some("Advanced")) >>

ServerScores == {3, 7}

\* AdaptiveState()
FreshEngine ==
    [ current_difficulty           |-> InitialDifficulty,
      consecutive_wrong_same_level |-> 0,
      last_answer_correct          |-> None,
      difficulty_path              |-> << >>,
      performance_history          |-> << >> ]

\* the defaults of initialize_session_state
FreshSession ==
    [ run_phase        |-> "idle",
      qa_index         |-> 0,
      used_q_indices   |-> << >>,
      session_complete |-> FALSE ]

\* bug variant: one namespace, and so one adaptive_engine, for the runs of all sessions
ScriptNamespaceShared(s) == 1

\* the namespace in which a script run of session s binds the module-level names
ScriptNamespace(s) == s

\* the values random.choice(higher_difficulties) can return for the given answer
Draws(state, score) ==
    IF is_correct(score) /\ higher_difficulties(state.current_difficulty) # {}
    THEN higher_difficulties(state.current_difficulty)
    ELSE { state.current_difficulty }

\* update_state on an engine held as a value, the ascent having drawn the given
\* difficulty
UpdatedEngine(state, score, question_index, question_difficulty, drawn) ==
    LET performance_record ==
            PerformanceRecord(score, question_index, question_difficulty)
        streak == state.consecutive_wrong_same_level + 1
    IN  [ current_difficulty |->
              IF is_correct(score) THEN drawn
              ELSE IF streak >= StreakLimit
                   THEN DroppedDifficulty(state.current_difficulty)
                   ELSE state.current_difficulty,
          consecutive_wrong_same_level |->
              IF is_correct(score) \/ streak >= StreakLimit THEN 0 ELSE streak,
          last_answer_correct |-> Some(is_correct(score)),
          difficulty_path     |-> AppendRecord(state.difficulty_path, performance_record),
          performance_history |->
              AppendRecord(state.performance_history, performance_record) ]

\* the top level of the script in a run of session s
session_script_run(s) ==
    /\ engines' = [ engines EXCEPT ![ScriptNamespace(s)] = Some(FreshEngine) ]
    /\ sessions' = [ sessions EXCEPT ![s].run_phase = "main" ]
    /\ actor' = s

\* handle_text_input and handle_next_question_logic in a run of session s, in
\* adaptive mode
session_handle_text_input(s, score) ==
    LET current == sessions[s].qa_index
        qa == ServerQuestions[current + 1]
        used == AppendIfNew(sessions[s].used_q_indices, current)
        engine == engines[ScriptNamespace(s)][1]
    IN  /\ actor' = s
        /\ IF AllAnswered(used, ServerQuestions)
           THEN /\ sessions' = [ sessions EXCEPT ![s] =
                                   [ run_phase        |-> "idle",
                                     qa_index         |-> current,
                                     used_q_indices   |-> used,
                                     session_complete |-> TRUE ] ]
                /\ UNCHANGED engines
           ELSE \E drawn \in Draws(engine, score) :
                   LET updated == UpdatedEngine(engine, score, current,
                                                QuestionDifficultyArg(qa), drawn)
                       next_question_index ==
                           FindNextQuestion(ServerQuestions, Range(used),
                                            updated.current_difficulty)
                   IN  /\ engines' = [ engines EXCEPT
                                         ![ScriptNamespace(s)] = Some(updated) ]
                       /\ sessions' = [ sessions EXCEPT ![s] =
                                          [ run_phase        |-> "idle",
                                            qa_index         |->
                                                IF next_question_index # None
                                                THEN next_question_index[1]
                                                ELSE current,
                                            used_q_indices   |-> used,
                                            session_complete |->
                                                sessions[s].session_complete ] ]

\* the variables of the single session, which no session of the server uses
single_vars ==
    << engine_vars, pool_vars, op, args, attempted_at, recommendations, analytics,
       previous_analytics, qa_index, session_complete, adaptive_mode, answers,
       used_q_indices, run_phase, companion_vars >>

InitServer ==
    /\ current_difficulty = InitialDifficulty
    /\ consecutive_wrong_same_level = 0
    /\ last_answer_correct = None
    /\ difficulty_path = << >>
    /\ performance_history = << >>
    /\ questions = ServerQuestions
    /\ used_indices = {}
    /\ next_question = None
    /\ op = "init"
    /\ args = None
    /\ attempted_at = << >>
    /\ recommendations = None
    /\ analytics = None
    /\ previous_analytics = None
    /\ qa_index = 0
    /\ session_complete = FALSE
    /\ adaptive_mode = TRUE
    /\ answers = 0
    /\ used_q_indices = << >>
    /\ run_phase = "idle"
    /\ engines = [ s \in SessionIds |-> None ]
    /\ sessions = [ s \in SessionIds |-> FreshSession ]
    /\ actor = 0
    /\ NoCompanions

\* an interaction in some session starts a run of the script
ServerScriptRun ==
    \E s \in SessionIds :
        /\ sessions[s].run_phase = "idle"
        /\ session_script_run(s)
        /\ UNCHANGED single_vars

\* main() of a run finds the submitted answer of the question shown
ServerSubmitAnswer ==
    \E s \in SessionIds, score \in ServerScores :
        /\ sessions[s].run_phase = "main"
        /\ session_handle_text_input(s, score)
        /\ UNCHANGED single_vars

NextServer == ServerScriptRun \/ ServerSubmitAnswer

SpecServer == InitServer /\ [][NextServer]_vars

----------------------------------------------------------------------------
(* The learning trajectory of AdaptiveLearningVisualizer: a least-squares line    *)
(* through the scores of a history.  The scores are integers (scoring.py), so     *)
(* every quantity of the regression is a ratio of integers, kept here as a        *)
(* numerator over a positive denominator; a division by zero raises               *)

Zero == Ratio(0, 1)

\* bug variant: 1 - (ss_res / ss_tot) without the test of ss_tot
RSquaredUnguarded(ss_res_num, ss_tot_num, denominator) ==
    IF ss_tot_num # 0
    THEN Some(Ratio(ss_tot_num * denominator * denominator - ss_res_num,
                    ss_tot_num * denominator * denominator))
    ELSE None

\* r_squared = 1 - (ss_res / ss_tot) if ss_tot != 0 else 0, with
\* ss_res = ss_res_num / (n * denominator)^2 and ss_tot = ss_tot_num / n^2;
\* None stands for a ZeroDivisionError
RSquared(ss_res_num, ss_tot_num, denominator) ==
    IF ss_tot_num # 0
    THEN Some(Ratio(ss_tot_num * denominator * denominator - ss_res_num,
                    ss_tot_num * denominator * denominator))
    ELSE Some(Zero)

\* slope > 0.1, slope < -0.1, else stable, for slope = num / den with den > 0
TrendOf(num, den) ==
    IF 10 * num > den THEN "improving"
    ELSE IF 10 * num < 0 - den THEN "declining"
    ELSE "stable"

TrajectoryRaised(exception) == [ raised |-> Some(exception), returned |-> None ]

TrajectoryReturned(value) == [ raised |-> None, returned |-> Some(value) ]

\* the outcome of create_learning_trajectory(history)
LearningTrajectory(history) ==
    IF Len(history) < 3
    THEN TrajectoryReturned([ trend |-> "insufficient_data", slope |-> Zero,
                    r_squared |-> Zero ])
    ELSE
    LET n == Len(history)
        y(i) == history[i + 1].score
        x(i) == i
        xy(i) == x(i) * y(i)
        x2(i) == x(i) * x(i)
        \* sum(term(i) for i in range(n))
        sum(term(_)) == SumSeq([ i \in 1 .. n |-> term(i - 1) ])
        sum_x == sum(x)
        sum_y == sum(y)
        sum_xy == sum(xy)
        sum_x2 == sum(x2)
        numerator == n * sum_xy - sum_x * sum_y
        denominator == n * sum_x2 - sum_x * sum_x
        \* intercept = (sum_y - slope * sum_x) / n
        intercept_num == sum_y * denominator - numerator * sum_x
        \* (y - y_mean)^2 = (n * y - sum_y)^2 / n^2
        tot(i) == (n * y(i) - sum_y) * (n * y(i) - sum_y)
        ss_tot_num == sum(tot)
        \* y - (slope * x + intercept), over n * denominator
        residual(i) == n * denominator * y(i) - n * numerator * x(i) - intercept_num
        res(i) == residual(i) * residual(i)
        ss_res_num == sum(res)
        r_squared == RSquared(ss_res_num, ss_tot_num, denominator)
    IN  IF denominator = 0 \/ r_squared = None
        THEN TrajectoryRaised("ZeroDivisionError")
        ELSE TrajectoryReturned([ trend     |-> TrendOf(numerator, denominator),
                        slope     |-> Ratio(numerator, denominator),
                        r_squared |-> r_squared[1],
                        intercept |-> Ratio(intercept_num, n * denominator) ])

create_learning_trajectory ==
    /\ analytics' = Some(LearningTrajectory(performance_history))
    /\ previous_analytics' = analytics
    /\ op' = "create_learning_trajectory"
    /\ UNCHANGED << engine_vars, pool_vars, args, attempted_at, recommendations,
                    session_vars >>

(* Specification of the trajectory: every history of up to MaxTrajectory scores *)

TrajectoryScores == { 3, 6, 8 }

TrajectoryHistories ==
    UNION { { [ i \in 1 .. n |-> PerformanceRecord(scores[i], i - 1, InitialDifficulty) ] :
              scores \in [ 1 .. n -> TrajectoryScores ] } : n \in 0 .. MaxTrajectory }

InitTrajectory ==
    /\ current_difficulty = InitialDifficulty
    /\ consecutive_wrong_same_level = 0
    /\ last_answer_correct = None
    /\ performance_history \in TrajectoryHistories
    /\ difficulty_path = performance_history
    /\ questions = << >>
    /\ used_indices = {}
    /\ next_question = None
    /\ op = "init"
    /\ args = None
    /\ attempted_at = << >>
    /\ recommendations = None
    /\ analytics = None
    /\ previous_analytics = None
    /\ qa_index = 0
    /\ session_complete = FALSE
    /\ adaptive_mode = TRUE
    /\ answers = 0
    /\ used_q_indices = << >>
    /\ run_phase = "idle"
    /\ NoServer
    /\ NoCompanions

NextTrajectory == create_learning_trajectory

SpecTrajectory == InitTrajectory /\ [][NextTrajectory]_vars

----------------------------------------------------------------------------
(* The legacy controller of echo.py, get_next_question_adaptive, which keeps the  *)
(* adaptive state in st.session_state, run side by side with the engine: both    *)
(* are given the same score and, for random.choice, the same random draw         *)

\* random.choice(seq) is seq[randbelow(len(seq))]; the generator in a given state,
\* draw, yields for a given length the same index
RandomChoice(seq, draw) == seq[(draw % Len(seq)) + 1]

\* the members of a set of integers in ascending order
AscendingList(S) ==
    [ k \in 1 .. Cardinality(S) |->
        CHOOSE x \in S : Cardinality({ y \in S : y < x }) = k - 1 ]

\* bug variant: range(current_difficulty + 1, 20), the top level is left out
legacy_higher_difficulties_short(d) ==
    [ k \in 1 .. MaxOf(0, 19 - d) |-> d + k ]

\* [d for d in range(current_difficulty + 1, 21)]
legacy_higher_difficulties(d) ==
    [ k \in 1 .. MaxOf(0, 20 - d) |-> d + k ]

\* find_question_by_difficulty: the two loops of find_next_question over
\* st.session_state.all_qas; every question of the pool has a 'level' key, which
\* the legacy loops read with qa['level']
find_question_by_difficulty(all_qas, used, target_difficulty) ==
    FindNextQuestion(all_qas, used, target_difficulty)

\* st.session_state after get_next_question_adaptive(user_score)
LegacyAfter(state, user_score, current_index, draw) ==
    LET legacy_correct == user_score >= 6
        record == [ difficulty     |-> state.current_difficulty,
                    score          |-> user_score,
                    correct        |-> legacy_correct,
                    question_index |-> current_index ]
        higher == legacy_higher_difficulties(state.current_difficulty)
        streak == state.consecutive_wrong_same_level + 1
    IN  [ last_answer_correct |-> Some(legacy_correct),
          difficulty_path     |-> Append(state.difficulty_path, record),
          consecutive_wrong_same_level |->
              IF legacy_correct THEN 0
              ELSE IF streak >= 2 THEN 0 ELSE streak,
          current_difficulty |->
              IF legacy_correct
              THEN IF higher # << >>
                   THEN RandomChoice(higher, draw)
                   ELSE state.current_difficulty
              ELSE IF streak >= 2 /\ state.current_difficulty > 1
                   THEN MaxOf(1, state.current_difficulty - 2)
                   ELSE state.current_difficulty ]

get_next_question_adaptive(user_score, draw) ==
    LET after == LegacyAfter(session_state, user_score, qa_index, draw)
        found == find_question_by_difficulty(questions, Range(used_q_indices),
                                             after.current_difficulty)
    IN  /\ session_state' = after
        /\ qa_index' = (IF found # None THEN found[1] ELSE qa_index)

\* the same answer given to the engine and to the legacy controller, the engine's
\* random.choice reading the same draw
answer_both(score, draw) ==
    /\ get_next_question_adaptive(score, draw)
    /\ EngineUpdate(score, qa_index, EffectiveDifficulty(questions[qa_index + 1]))
    /\ (is_correct(score) /\ higher_difficulties(current_difficulty) # {}) =>
          current_difficulty' =
              RandomChoice(AscendingList(higher_difficulties(current_difficulty)), draw)
    /\ op' = "answer_both"
    /\ answers' = answers + 1
    /\ UNCHANGED << pool_vars, analytics, previous_analytics, session_complete,
                    adaptive_mode, used_q_indices, run_phase, server_vars,
                    support_vars, evaluation >>

(* Specification of the two controllers side by side *)

LegacyScores == { 5, 6 }

\* the first of the list, one in the middle, the last of the longest list
LegacyDraws == { 0, 7, 18 }

LegacyPool ==
    << Question(Some(8), Some("Intermediate")), Question(None, Some("Advanced")),
       Question(Some(1), Some("Basic")) >>

InitLegacy ==
    /\ current_difficulty = InitialDifficulty
    /\ consecutive_wrong_same_level = 0
    /\ last_answer_correct = None
    /\ difficulty_path = << >>
    /\ performance_history = << >>
    /\ questions = LegacyPool
    /\ used_indices = {}
    /\ next_question = None
    /\ op = "init"
    /\ args = None
    /\ attempted_at = << >>
    /\ recommendations = None
    /\ analytics = None
    /\ previous_analytics = None
    /\ qa_index = 0
    /\ session_complete = FALSE
    /\ adaptive_mode = TRUE
    /\ answers = 0
    /\ used_q_indices = << >>
    /\ run_phase = "idle"
    /\ NoServer
    /\ NoCompanions

AnswerBoth ==
    /\ answers < MaxLegacyAnswers
    /\ \E score \in LegacyScores, draw \in LegacyDraws :
          /\ is_correct(score) => CorrectCount < MaxLegacyCorrect
          /\ answer_both(score, draw)

NextLegacy == AnswerBoth

SpecLegacy == InitLegacy /\ [][NextLegacy]_vars

----------------------------------------------------------------------------
(* The selective mutism support (src/selective_mutism_support.py): the confidence *)
(* level of SelectiveMutismState, which update_confidence_level raises by 1 and   *)
(* lowers by 0.5.  A level is kept as num / den: an int has den 1, a float is     *)
(* counted in halves                                                              *)

\* level < n, level > n and level == n for an integer n
LevelBelow(level, n) == level.num < n * level.den
LevelAbove(level, n) == level.num > n * level.den
LevelEquals(level, n) == level.num = n * level.den

\* self.confidence_thresholds.get(level, float('inf')): a float key equal to an
\* int key finds its entry; None stands for float('inf')
ConfidenceThreshold(level) ==
    IF LevelEquals(level, 1) THEN Some(3)
    ELSE IF LevelEquals(level, 2) THEN Some(5)
    ELSE IF LevelEquals(level, 3) THEN Some(7)
    ELSE IF LevelEquals(level, 4) THEN Some(10)
    ELSE None

\* level + 1
LevelUp(level) == [ num |-> level.num + level.den, den |-> level.den ]

\* max(1, level - 0.5): the difference is a float; max returns its first argument,
\* the int 1, unless the difference is greater
LevelDown(level) ==
    LET halves == (level.num * 2) \div level.den - 1 IN
    IF halves > 2 THEN Halves(halves) ELSE Whole(1)

\* the SelectiveMutismState held in the variables
SupportState ==
    [ confidence_level           |-> confidence_level,
      success_streak             |-> success_streak,
      progress_milestones        |-> progress_milestones,
      communication_methods_used |-> communication_methods_used ]

\* the state after update_confidence_level(success, communication_method), and
\* what the call returns; the 'timestamp' of a milestone and the messages of the
\* returned dictionary, drawn at random from fixed lists, are left out
SupportAfter(state, success, communication_method) ==
    LET methods == IF communication_method \in Range(state.communication_methods_used)
                   THEN state.communication_methods_used
                   ELSE Append(state.communication_methods_used, communication_method)
        streak == state.success_streak + 1
        current_threshold == ConfidenceThreshold(state.confidence_level)
        new_level == LevelUp(state.confidence_level)
        milestone == [ type                 |-> "confidence_increase",
                       level                |-> new_level,
                       success_streak       |-> streak,
                       communication_method |-> communication_method ]
    IN  IF success
        THEN IF /\ current_threshold # None
                /\ streak >= current_threshold[1]
                /\ LevelBelow(state.confidence_level, 5)
             THEN [ confidence_level           |-> new_level,
                    success_streak             |-> streak,
                    progress_milestones        |->
                        Append(state.progress_milestones, milestone),
                    communication_methods_used |-> methods,
                    returned |-> [ confidence_increased |-> TRUE,
                                   old_level |-> Some(state.confidence_level),
                                   new_level |-> Some(new_level) ] ]
             ELSE [ confidence_level           |-> state.confidence_level,
                    success_streak             |-> streak,
                    progress_milestones        |-> state.progress_milestones,
                    communication_methods_used |-> methods,
                    returned |-> [ confidence_increased |-> FALSE,
                                   old_level |-> None, new_level |-> None ] ]
        ELSE [ confidence_level           |->
                   IF LevelAbove(state.confidence_level, 1)
                   THEN LevelDown(state.confidence_level)
                   ELSE state.confidence_level,
               success_streak             |-> 0,
               progress_milestones        |-> state.progress_milestones,
               communication_methods_used |-> methods,
               returned |-> [ confidence_increased |-> FALSE,
                              old_level |-> None, new_level |-> None ] ]

update_confidence_level(success, communication_method) ==
    LET after == SupportAfter(SupportState, success, communication_method) IN
    /\ confidence_level' = after.confidence_level
    /\ success_streak' = after.success_streak
    /\ progress_milestones' = after.progress_milestones
    /\ communication_methods_used' = after.communication_methods_used
    /\ confidence_update' = Some(after.returned)
    /\ op' = "update_confidence_level"
    /\ args' = Some([ success |-> success,
                      communication_method |-> communication_method ])
    /\ answers' = answers + 1
    /\ UNCHANGED << engine_vars, pool_vars, attempted_at, recommendations, analytics,
                    previous_analytics, qa_index, session_complete, adaptive_mode,
                    used_q_indices, run_phase, server_vars, legacy_vars, evaluation >>

(* Specification of the support: every sequence of successes and failures *)

\* the methods echo_refactored.py passes
CommunicationMethods == { "speech", "text" }

InitSupport ==
    /\ current_difficulty = InitialDifficulty
    /\ consecutive_wrong_same_level = 0
    /\ last_answer_correct = None
    /\ difficulty_path = << >>
    /\ performance_history = << >>
    /\ questions = << >>
    /\ used_indices = {}
    /\ next_question = None
    /\ op = "init"
    /\ args = None
    /\ attempted_at = << >>
    /\ recommendations = None
    /\ analytics = None
    /\ previous_analytics = None
    /\ qa_index = 0
    /\ session_complete = FALSE
    /\ adaptive_mode = TRUE
    /\ answers = 0
    /\ used_q_indices = << >>
    /\ run_phase = "idle"
    /\ NoServer
    /\ NoCompanions

UpdateConfidence ==
    /\ answers < MaxSupportCalls
    /\ \E success \in BOOLEAN, communication_method \in CommunicationMethods :
          update_confidence_level(success, communication_method)

NextSupport == UpdateConfidence

SpecSupport == InitSupport /\ [][NextSupport]_vars

----------------------------------------------------------------------------
(* The evaluator of the selective mutism mode (src/scoring.py): the score the    *)
(* language model gives, clamped into 4..10, with a bonus for the confidence     *)
(* level.  The model's reply is an input: whether the call raised, the number     *)
(* after SCORE: if there is one, and the digit after CONFIDENCE_BOOST:           *)

MinOf(a, b) == IF a <= b THEN a ELSE b

\* the outcome of evaluate_answer_selective_mutism: 'score' and 'confidence_boost'
\* of the returned dictionary; the texts are left out
EvaluationOutcome(answered, llm_raises, score_match, boost_match, level) ==
    IF ~ answered
    THEN [ score |-> 4, confidence_boost |-> 0 ]
    ELSE IF llm_raises
    THEN [ score |-> 6, confidence_boost |-> 1 ]
    ELSE
    LET parsed == IF score_match # None THEN score_match[1] ELSE 6
        clamped == MaxOf(4, MinOf(10, parsed))
        score == IF ~ LevelBelow(level, 3) THEN MinOf(10, clamped + 1)
                 ELSE IF ~ LevelBelow(level, 5) THEN MinOf(10, clamped + 2)
                 ELSE clamped
    IN  [ score |-> score,
          confidence_boost |-> IF boost_match # None THEN boost_match[1] ELSE 0 ]

evaluate_answer_selective_mutism(answered, llm_raises, score_match, boost_match, level) ==
    /\ evaluation' = Some(EvaluationOutcome(answered, llm_raises, score_match,
                                            boost_match, level))
    /\ args' = Some([ answered |-> answered, llm_raises |-> llm_raises,
                      score_match |-> score_match, boost_match |-> boost_match,
                      confidence_level |-> level ])
    /\ op' = "evaluate_answer_selective_mutism"
    /\ UNCHANGED << engine_vars, pool_vars, attempted_at, recommendations, analytics,
                    previous_analytics, qa_index, session_complete, adaptive_mode,
                    answers, used_q_indices, run_phase, server_vars, legacy_vars,
                    support_vars >>

(* Specification of the evaluator: every reply and every confidence level *)

\* the numbers a reply can carry after SCORE:, below, inside and above 4..10
ScoreMatches == { None } \cup { Some(n) : n \in { 0, 3, 4, 5, 7, 9, 10, 12 } }

BoostMatches == { None, Some(0), Some(1) }

\* the levels the support can hold: the five of the scale, and the halves between
EvaluationLevels ==
    { Whole(n) : n \in 1 .. 5 } \cup { Halves(h) : h \in { 3, 5, 7, 9 } }

InitEvaluation ==
    /\ current_difficulty = InitialDifficulty
    /\ consecutive_wrong_same_level = 0
    /\ last_answer_correct = None
    /\ difficulty_path = << >>
    /\ performance_history = << >>
    /\ questions = << >>
    /\ used_indices = {}
    /\ next_question = None
    /\ op = "init"
    /\ args = None
    /\ attempted_at = << >>
    /\ recommendations = None
    /\ analytics = None
    /\ previous_analytics = None
    /\ qa_index = 0
    /\ session_complete = FALSE
    /\ adaptive_mode = TRUE
    /\ answers = 0
    /\ used_q_indices = << >>
    /\ run_phase = "idle"
    /\ NoServer
    /\ NoCompanions

NextEvaluation ==
    \E answered \in BOOLEAN, llm_raises \in BOOLEAN, score_match \in ScoreMatches,
       boost_match \in BoostMatches, level \in EvaluationLevels :
        evaluate_answer_selective_mutism(answered, llm_raises, score_match,
                                         boost_match, level)

SpecEvaluation == InitEvaluation /\ [][NextEvaluation]_vars

----------------------------------------------------------------------------
(* Observations the properties are stated over *)

Calls == 1 .. Len(attempted_at)

\* the k-th submitted score was below / at or above 6
WrongAt(k) == performance_history[k].score < 6
CorrectAt(k) == performance_history[k].score >= 6

\* current_difficulty right after the k-th update_state call of the session
DifficultyAfter(k) ==
    IF k < Len(attempted_at) THEN attempted_at[k + 1] ELSE current_difficulty

\* the k-th call left the difficulty as it was
UnchangedBy(k) == DifficultyAfter(k) = attempted_at[k]

\* the number of consecutive incorrect answers submitted since the difficulty last
\* changed, the last correct answer or the start of the session
RECURSIVE WrongRunUpTo(_)
WrongRunUpTo(k) ==
    IF k = 0 THEN 0
    ELSE IF WrongAt(k) /\ UnchangedBy(k) THEN 1 + WrongRunUpTo(k - 1) ELSE 0

WrongRun == WrongRunUpTo(Len(attempted_at))

\* the number of incorrect answers since the last correct answer or the start
RECURSIVE TrailingWrongUpTo(_)
TrailingWrongUpTo(k) ==
    IF k = 0 THEN 0
    ELSE IF WrongAt(k) THEN 1 + TrailingWrongUpTo(k - 1) ELSE 0

TrailingWrong == TrailingWrongUpTo(Len(attempted_at))

----------------------------------------------------------------------------
(* Properties of the difficulty controller *)

\* C1: from a fresh engine, after every update_state call of every sequence of
\* scores, current_difficulty lies in [1, 20] (and so did it at every earlier call).
C1_DifficultyInBounds ==
    /\ current_difficulty \in 1 .. 20
    /\ \A k \in Calls : attempted_at[k] \in 1 .. 20

\* C1 witness: two wrong answers in a row were submitted at difficulty 1, the second
\* completing a streak, and the difficulty was kept at 1 by the lower bound.
C1_Witness ==
    /\ op = "update_state"
    /\ Len(attempted_at) >= 2
    /\ attempted_at[Len(attempted_at)] = 1
    /\ attempted_at[Len(attempted_at) - 1] = 1
    /\ WrongAt(Len(attempted_at)) /\ WrongAt(Len(attempted_at) - 1)
    /\ current_difficulty = 1
    /\ consecutive_wrong_same_level = 0

\* C2: two consecutive scores < 6 submitted at the same difficulty d leave the
\* difficulty at max(1, d - 2) (one drop of 2, clamped at 1), and a wrong score that
\* does not follow a wrong score leaves the difficulty unchanged.
C2_TwoWrongDropOnce ==
    \A k \in Calls :
        /\ ( /\ k >= 2
             /\ WrongAt(k - 1) /\ WrongAt(k)
             /\ attempted_at[k - 1] = attempted_at[k] )
           => DifficultyAfter(k) =
                 (IF attempted_at[k] - 2 >= 1 THEN attempted_at[k] - 2 ELSE 1)
        /\ ( WrongAt(k) /\ (k = 1 \/ CorrectAt(k - 1)) )
           => DifficultyAfter(k) = attempted_at[k]

\* C2 witness: one session in which a pair of wrong scores was submitted at
\* difficulty 2 (dropping to 1) and a later pair at difficulty 1 (staying at 1).
C2_Witness ==
    /\ \E k \in Calls : /\ k >= 2
                        /\ WrongAt(k - 1) /\ WrongAt(k)
                        /\ attempted_at[k - 1] = 2 /\ attempted_at[k] = 2
                        /\ DifficultyAfter(k) = 1
    /\ \E k \in Calls : /\ k >= 2
                        /\ WrongAt(k - 1) /\ WrongAt(k)
                        /\ attempted_at[k - 1] = 1 /\ attempted_at[k] = 1
                        /\ DifficultyAfter(k) = 1

\* C3: an update_state call with score >= 6 leaves consecutive_wrong_same_level at 0
\* and raises current_difficulty strictly when it was below 20; at 20 it is unchanged.
C3_CorrectResetsAndRaises ==
    /\ (op = "update_state" /\ args[1].score >= 6) => consecutive_wrong_same_level = 0
    /\ \A k \in Calls :
          CorrectAt(k) =>
              IF attempted_at[k] < 20
              THEN DifficultyAfter(k) > attempted_at[k]
              ELSE DifficultyAfter(k) = attempted_at[k]

\* C3 witness: a wrong score (streak 1), then a correct score that raised the
\* difficulty to 20, then a correct score submitted at 20.
C3_Witness ==
    /\ op = "update_state"
    /\ Len(attempted_at) = 3
    /\ WrongAt(1) /\ CorrectAt(2) /\ CorrectAt(3)
    /\ attempted_at[2] < 20
    /\ attempted_at[3] = 20
    /\ current_difficulty = 20
    /\ consecutive_wrong_same_level = 0

\* C8: from difficulty 10, score 9 moves the difficulty to some d' in [11, 20]; the
\* following scores 2 and 3 leave it at d' after the first and at d' - 2 with the
\* streak at 0 after the second.
C8_Scenario ==
    ( /\ Len(attempted_at) >= 3
      /\ attempted_at[1] = 10
      /\ performance_history[1].score = 9
      /\ performance_history[2].score = 2
      /\ performance_history[3].score = 3 )
    => /\ attempted_at[2] \in 11 .. 20
       /\ DifficultyAfter(2) = attempted_at[2]
       /\ DifficultyAfter(3) = attempted_at[2] - 2
       /\ Len(attempted_at) = 3 => consecutive_wrong_same_level = 0

\* C8 witness: the three scores 9, 2, 3 have just been submitted to a fresh engine.
C8_Witness ==
    /\ op = "update_state"
    /\ Len(attempted_at) = 3
    /\ performance_history[1].score = 9
    /\ performance_history[2].score = 2
    /\ performance_history[3].score = 3
    /\ current_difficulty = attempted_at[2] - 2

\* C9 as stated: every update_state call appends exactly one record, whose difficulty
\* field is the current_difficulty in force before that call.
C9_RecordsCurrentDifficulty ==
    /\ Len(performance_history) = Len(attempted_at)
    /\ \A k \in Calls : performance_history[k].difficulty = attempted_at[k]

\* C9 as amended: every update_state call appends exactly one record, whose
\* difficulty field is the question_difficulty argument of that call (its score and
\* question_index are the call's too), whatever current_difficulty is.
C9_RecordsQuestionDifficulty ==
    /\ Len(performance_history) = Len(attempted_at)
    /\ op = "update_state" =>
          /\ performance_history[Len(performance_history)].difficulty
                = args[1].question_difficulty
          /\ performance_history[Len(performance_history)].score = args[1].score
          /\ performance_history[Len(performance_history)].question_index
                = args[1].question_index

\* C9 witness: an update_state call with a question_difficulty other than the
\* current_difficulty in force has appended its record.
C9_Witness ==
    /\ op = "update_state"
    /\ args[1].question_difficulty # attempted_at[Len(attempted_at)]
    /\ performance_history[Len(performance_history)].difficulty
          = args[1].question_difficulty

\* C10 as stated: consecutive_wrong_same_level is the number of consecutive incorrect
\* answers since current_difficulty last changed, the last correct answer or the
\* start of the session.
C10_StreakCountsSinceChange == consecutive_wrong_same_level = WrongRun

\* C10 as amended: consecutive_wrong_same_level is that number whenever
\* current_difficulty is above 1; at difficulty 1, where the second wrong answer of
\* a streak resets the streak although the difficulty stays 1, it is the number of
\* incorrect answers since the last correct answer or the start, modulo 2.
C10_StreakCountsSinceReset ==
    /\ current_difficulty > 1 => consecutive_wrong_same_level = WrongRun
    /\ consecutive_wrong_same_level = TrailingWrong % 2

\* C10 witness: at difficulty 1 two wrong answers in a row left the difficulty
\* unchanged and the streak was reset.
C10_Witness ==
    /\ current_difficulty = 1
    /\ WrongRun >= 2
    /\ consecutive_wrong_same_level = 0

\* the k-th answer was incorrect and lowered the difficulty
DropAt(k) == WrongAt(k) /\ DifficultyAfter(k) < attempted_at[k]

\* C26: a correct answer at difficulty d < 20 leaves the difficulty in d+1 .. 20, and
\* from every state with difficulty d < 20 each value of d+1 .. 20 is a possible
\* outcome of the step update_state takes for a correct answer.
C26_AscentOverWholeRange ==
    /\ \A k \in Calls :
          (CorrectAt(k) /\ attempted_at[k] < 20) =>
              DifficultyAfter(k) \in (attempted_at[k] + 1) .. 20
    /\ current_difficulty < 20 =>
          \A target \in (current_difficulty + 1) .. 20 :
              ENABLED ( /\ current_difficulty' = target
                        /\ _handle_correct_answer )

\* C26 witness: a correct answer at difficulty 10 has moved the difficulty to 15,
\* neither the next level nor the highest.
C26_Witness ==
    /\ op = "update_state"
    /\ CorrectAt(Len(attempted_at))
    /\ attempted_at[Len(attempted_at)] = 10
    /\ current_difficulty = 15

\* C27: the recommendations returned by update_state hold the state after the
\* update: target_difficulty is the new current_difficulty, consecutive_wrong the new
\* consecutive_wrong_same_level, and last_correct is (score >= 6) of the score
\* submitted.
C27_RecommendationsAfterUpdate ==
    op = "update_state" =>
        /\ recommendations[1].target_difficulty = current_difficulty
        /\ recommendations[1].consecutive_wrong = consecutive_wrong_same_level
        /\ recommendations[1].last_correct = Some(args[1].score >= 6)

\* C27 witness: the update that was reported on completed a streak: it lowered the
\* difficulty, reset the streak, and followed a correct answer's successor.
C27_Witness ==
    /\ op = "update_state"
    /\ Len(attempted_at) = 3
    /\ CorrectAt(1) /\ WrongAt(2) /\ WrongAt(3)
    /\ current_difficulty = attempted_at[3] - 2
    /\ recommendations[1].target_difficulty = attempted_at[3] - 2
    /\ recommendations[1].consecutive_wrong = 0
    /\ recommendations[1].last_correct = Some(FALSE)

\* C28: a fresh engine has current_difficulty 10, consecutive_wrong_same_level 0,
\* last_answer_correct unset and an empty history, and reset_state restores exactly
\* this state after any sequence of updates.
C28_ResetRestoresInitialState ==
    op \in { "init", "reset_state" } =>
        /\ current_difficulty = 10
        /\ consecutive_wrong_same_level = 0
        /\ last_answer_correct = None
        /\ performance_history = << >>
        /\ difficulty_path = << >>

\* C28 witness: reset_state was called on an engine whose last update had moved the
\* difficulty away from 10 and left a streak of 1.
C28_Witness ==
    /\ op = "reset_state"
    /\ recommendations # None
    /\ recommendations[1].target_difficulty # 10
    /\ recommendations[1].consecutive_wrong = 1
    /\ current_difficulty = 10

\* C29: a drop resets the streak to 0; the first wrong answer after a drop leaves the
\* difficulty unchanged with the streak at 1, and the wrong answer after that one
\* drops the difficulty again (by 2, clamped at 1).
C29_FreshStreakAfterDrop ==
    \A k \in Calls :
        /\ (DropAt(k) /\ k = Len(attempted_at)) => consecutive_wrong_same_level = 0
        /\ (k >= 2 /\ DropAt(k - 1) /\ WrongAt(k)) =>
              /\ DifficultyAfter(k) = attempted_at[k]
              /\ k = Len(attempted_at) => consecutive_wrong_same_level = 1
        /\ (k >= 3 /\ DropAt(k - 2) /\ WrongAt(k - 1) /\ WrongAt(k)) =>
              DifficultyAfter(k) = MaxOf(1, attempted_at[k] - 2)

\* C29 witness: four wrong answers in a row: the second dropped the difficulty, the
\* third left it unchanged and the fourth dropped it again.
C29_Witness ==
    /\ Len(attempted_at) >= 4
    /\ LET k == Len(attempted_at) IN
          /\ DropAt(k - 2)
          /\ WrongAt(k - 1) /\ DifficultyAfter(k - 1) = attempted_at[k - 1]
          /\ DropAt(k)
          /\ consecutive_wrong_same_level = 0

----------------------------------------------------------------------------
(* Properties of the question selector *)

PoolIndices == 0 .. Len(questions) - 1

Unused == { i \in PoolIndices : i \notin used_indices }

\* the distance of question i from the target difficulty
Distance(i) ==
    LET e == EffectiveDifficulty(questions[i + 1]) IN
    IF e >= current_difficulty THEN e - current_difficulty ELSE current_difficulty - e

ExactUnused == { i \in Unused : EffectiveDifficulty(questions[i + 1]) = current_difficulty }

NearestUnused == { i \in Unused : \A j \in Unused : Distance(i) <= Distance(j) }

Lowest(S) == CHOOSE i \in S : \A j \in S : i <= j

Returned == op = "find_next_question"

\* C4: find_next_question never returns a used index, nor an index outside the pool.
C4_NeverUsedIndex ==
    (Returned /\ next_question # None) =>
        /\ next_question[1] \notin used_indices
        /\ next_question[1] \in PoolIndices

\* C4 witness: an index was returned although some index is used, one of them at
\* the target difficulty and below the returned index.
C4_Witness ==
    /\ Returned
    /\ next_question # None
    /\ \E i \in used_indices :
          /\ i < next_question[1]
          /\ EffectiveDifficulty(questions[i + 1]) = current_difficulty

\* C5: when some unused candidate has exactly the target difficulty,
\* find_next_question returns the lowest-index such candidate.
C5_ExactMatchFirst ==
    (Returned /\ ExactUnused # {}) => next_question = Some(Lowest(ExactUnused))

\* C5 witness: difficulties [3, 8, 8, 13, 18], target 8, used {1}: index 2 returned.
C5_Witness ==
    /\ Returned
    /\ questions = ScenarioPool
    /\ used_indices = {1}
    /\ current_difficulty = 8
    /\ next_question = Some(2)

\* C6: find_next_question returns None if and only if every index of the pool is
\* used (the empty pool included).
C6_NoneIffExhausted ==
    Returned => (next_question = None <=> Unused = {})

\* C6 witness: a pool with an unused question, none of them at the target
\* difficulty, for which an index was returned.
C6_Witness ==
    /\ Returned
    /\ Unused # {}
    /\ ExactUnused = {}
    /\ used_indices # {}
    /\ next_question # None

\* C6 witness of the other direction: a non-empty pool all of whose indices are used.
C6_WitnessExhausted ==
    /\ Returned
    /\ questions # << >>
    /\ Unused = {}
    /\ next_question = None

\* C7: when no unused candidate has the target difficulty, find_next_question
\* returns the lowest index among the unused candidates nearest to the target.
C7_NearestLowestIndex ==
    (Returned /\ ExactUnused = {} /\ Unused # {}) =>
        next_question = Some(Lowest(NearestUnused))

\* C7 witness: no exact match, two unused candidates of different difficulties tie
\* at the minimal distance, a nearer candidate is used, and the first was returned.
C7_Witness ==
    /\ Returned
    /\ ExactUnused = {}
    /\ \E i, j \in NearestUnused :
          /\ i < j
          /\ EffectiveDifficulty(questions[i + 1]) # EffectiveDifficulty(questions[j + 1])
          /\ next_question = Some(i)
    /\ \E u \in used_indices : \A i \in NearestUnused : Distance(u) < Distance(i)

----------------------------------------------------------------------------
(* Properties of the analytics and of the recommendations *)

ReadOnlyOps == { "get_learning_analytics", "export_learning_data" }

HistoryLen == Len(performance_history)

\* the score of the i-th of the last five records (i = 1 is the oldest of them)
RecentScore(i) == performance_history[HistoryLen - 5 + i].score

\* C12: get_learning_analytics and export_learning_data return in every reachable
\* state, and the export holds the state fields, the history and the analytics.
C12_AnalyticsReturn ==
    op \in ReadOnlyOps =>
        /\ analytics[1].raised = None
        /\ op = "export_learning_data" =>
              /\ analytics[1].value[1].state.current_difficulty = current_difficulty
              /\ analytics[1].value[1].state.consecutive_wrong_same_level
                    = consecutive_wrong_same_level
              /\ analytics[1].value[1].state.last_answer_correct = last_answer_correct
              /\ analytics[1].value[1].performance_history = performance_history

\* C13: for a non-empty history get_learning_analytics reports the number of
\* records, the share of records with score >= 6 times 100, and the recorded
\* difficulties in submission order.
C13_AnalyticsFigures ==
    (op = "get_learning_analytics" /\ performance_history # << >>) =>
        /\ analytics[1].raised = None
        /\ analytics[1].value[1].total_questions = HistoryLen
        /\ analytics[1].value[1].accuracy_rate.num * HistoryLen
              = 100 * Cardinality({ k \in 1 .. HistoryLen :
                                       performance_history[k].score >= 6 })
                    * analytics[1].value[1].accuracy_rate.den
        /\ analytics[1].value[1].difficulty_progression
              = [ k \in 1 .. HistoryLen |-> performance_history[k].difficulty ]

\* C14: a read-only analytics call repeated with no update_state in between yields
\* a result, identical to the result of the call before it.
C14_RepeatedCallsAgree ==
    (op \in ReadOnlyOps /\ previous_analytics # None) =>
        /\ previous_analytics[1].raised = None
        /\ analytics[1].raised = None
        /\ analytics = previous_analytics

\* C15: every analytics or export call leaves current_difficulty,
\* consecutive_wrong_same_level, last_answer_correct and performance_history as
\* they were.
C15_AnalyticsReadOnly ==
    [][ op' \in ReadOnlyOps =>
            UNCHANGED << current_difficulty, consecutive_wrong_same_level,
                         last_answer_correct, performance_history >> ]_vars

\* C15 witness: the analytics were called on an engine with a non-empty history
\* and a running streak.
C15_Witness ==
    /\ op = "get_learning_analytics"
    /\ performance_history # << >>
    /\ consecutive_wrong_same_level = 1

\* C16: ready_for_higher_difficulty returned by update_state is true exactly when
\* the history, the new record included, has at least 3 records and the scores of
\* its last 3 are all >= 8.
C16_ReadyForHigher ==
    op = "update_state" =>
        ( recommendations[1].ready_for_higher_difficulty
          <=> /\ HistoryLen >= 3
              /\ performance_history[HistoryLen].score >= 8
              /\ performance_history[HistoryLen - 1].score >= 8
              /\ performance_history[HistoryLen - 2].score >= 8 )

\* C16 witness: true was returned although an older record has a score below 8.
C16_Witness ==
    /\ op = "update_state"
    /\ HistoryLen >= 4
    /\ performance_history[1].score < 8
    /\ recommendations[1].ready_for_higher_difficulty

\* C17: needs_reinforcement returned by update_state is true exactly when the
\* history has at least 3 records and the scores of its last 3 are all < 6.
C17_NeedsReinforcement ==
    op = "update_state" =>
        ( recommendations[1].needs_reinforcement
          <=> /\ HistoryLen >= 3
              /\ performance_history[HistoryLen].score < 6
              /\ performance_history[HistoryLen - 1].score < 6
              /\ performance_history[HistoryLen - 2].score < 6 )

\* C17 witness: true was returned although an older record has a score of 6 or more.
C17_Witness ==
    /\ op = "update_state"
    /\ HistoryLen >= 4
    /\ performance_history[1].score >= 6
    /\ recommendations[1].needs_reinforcement

\* C18: learning_trend is "insufficient_data" exactly below 5 records; otherwise,
\* with s1..s5 the last 5 scores, it is "improving" iff mean(s3,s4,s5) >
\* mean(s1,s2) + 1, "declining" iff mean(s3,s4,s5) < mean(s1,s2) - 1 and "stable"
\* otherwise (both sides of each comparison are multiplied by 6).
C18_LearningTrend ==
    op = "update_state" =>
        recommendations[1].learning_trend =
            ( IF HistoryLen < 5
              THEN "insufficient_data"
              ELSE LET later == RecentScore(3) + RecentScore(4) + RecentScore(5)
                       earlier == RecentScore(1) + RecentScore(2)
                   IN  IF 2 * later > 3 * earlier + 6 THEN "improving"
                       ELSE IF 2 * later < 3 * earlier - 6 THEN "declining"
                       ELSE "stable" )

\* C18 witness: the scores 8, 9, 10, 9, 8 were submitted and the trend is "stable".
C18_Witness ==
    /\ op = "update_state"
    /\ ScoresOf(performance_history) = ScenarioScores
    /\ recommendations[1].learning_trend = "stable"

\* C18 witness with an older record: six records, the first of which alone would
\* change the trend, and a second-half mean exactly 1 above the first-half mean.
C18_WitnessOlderRecord ==
    /\ op = "update_state"
    /\ HistoryLen = 6
    /\ performance_history[1].score = 5
    /\ RecentScore(1) = 7 /\ RecentScore(2) = 7
    /\ RecentScore(3) = 8 /\ RecentScore(4) = 8 /\ RecentScore(5) = 8
    /\ recommendations[1].learning_trend = "stable"

\* C19 as stated: every score stored in performance_history lies in [0, 10].
C19_StoredScoresClamped ==
    \A k \in 1 .. HistoryLen : performance_history[k].score \in 0 .. 10

\* C19 as amended: update_state accepts every score and stores it as submitted,
\* in or out of [0, 10], marking it correct exactly when it is >= 6.
C19_StoredScoresAsSubmitted ==
    /\ \A k \in 1 .. HistoryLen :
          /\ performance_history[k].score \in Scores
          /\ performance_history[k].correct = (performance_history[k].score >= 6)
    /\ op = "update_state" =>
          /\ performance_history[HistoryLen].score = args[1].score
          /\ last_answer_correct = Some(args[1].score >= 6)
    /\ (HistoryLen < MaxHistory) => \A score \in Scores : ENABLED update_state(score, 0, 10)

\* C19 witness: a score above 10 and a score below 0 are both in the history.
C19_Witness ==
    /\ op = "update_state"
    /\ \E k \in 1 .. HistoryLen : performance_history[k].score > 10
    /\ \E k \in 1 .. HistoryLen : performance_history[k].score < 0
    /\ args[1].score \notin 0 .. 10

\* C20: update_state lengthens performance_history by exactly one record and keeps
\* every earlier record in its place; reset_state empties it; no other operation
\* changes it.
C20_HistoryAppendOnly ==
    [][ /\ op' = "update_state" =>
              /\ Len(performance_history') = Len(performance_history) + 1
              /\ SubSeq(performance_history', 1, Len(performance_history))
                    = performance_history
        /\ op' = "reset_state" => performance_history' = << >>
        /\ op' \notin { "update_state", "reset_state" } =>
              performance_history' = performance_history ]_vars

\* C20 witness: a record was appended to a history of records that differ from it.
C20_Witness ==
    /\ op = "update_state"
    /\ HistoryLen >= 3
    /\ performance_history[1].score # performance_history[HistoryLen].score

----------------------------------------------------------------------------
(* Properties of the session *)

\* C11: in an adaptive-mode session one PerformanceRecord is created per submitted
\* answer: after k answers, the final answer of the pool included, the history has
\* k records.
C11_OneRecordPerAnswer ==
    adaptive_mode => Len(performance_history) = answers

\* the indices of the pool of the session
SessionIndices == 0 .. Len(questions) - 1

\* the operations that begin a session with an empty list of used indices
SessionResets == { "clear_session_state", "start_session" }

\* C22 as stated: in an adaptive-mode session every submission that leaves a question
\* unused selects a next question, and after exactly |pool| submissions every index
\* is used and the session is marked complete.
C22_CompleteAfterPoolSubmissions ==
    (adaptive_mode /\ questions # << >>) =>
        /\ (op = "handle_text_input" /\ Range(used_q_indices) # SessionIndices) =>
              /\ next_question # None
              /\ qa_index = next_question[1]
              /\ qa_index \in SessionIndices \ Range(used_q_indices)
        /\ answers = Len(questions) =>
              /\ Range(used_q_indices) = SessionIndices
              /\ session_complete

\* C22 as amended: a submission that leaves a question unused selects a next
\* question among the unused ones and marks nothing; a submission after which every
\* index is used marks the session complete, and it is at least the |pool|-th
\* submission of the session, a submission for a question answered before adding
\* no index.
C22_CompleteWhenAllUsed ==
    [][ (adaptive_mode /\ op' = "handle_text_input") =>
            IF Range(used_q_indices') = SessionIndices
            THEN /\ session_complete'
                 /\ qa_index' = qa_index
                 /\ answers' >= Len(questions)
            ELSE /\ session_complete' = session_complete
                 /\ next_question' # None
                 /\ qa_index' = next_question'[1]
                 /\ qa_index' \in SessionIndices \ Range(used_q_indices')
                 /\ Len(used_q_indices') <= answers' ]_vars

\* C22 witness: a session of at least two questions was completed by one submission
\* more than it has questions.
C22_Witness ==
    /\ adaptive_mode
    /\ op = "handle_text_input"
    /\ Len(questions) >= 2
    /\ session_complete
    /\ Range(used_q_indices) = SessionIndices
    /\ answers = Len(questions) + 1

\* C23: within a session used_q_indices only grows at its end, holds no index twice,
\* and a submission adds the index of the question just answered, if it is new;
\* only a session reset empties it.
C23_UsedIndicesGrow ==
    [][ /\ \A j, k \in 1 .. Len(used_q_indices') :
              used_q_indices'[j] = used_q_indices'[k] => j = k
        /\ op' \notin SessionResets =>
              /\ Len(used_q_indices') >= Len(used_q_indices)
              /\ SubSeq(used_q_indices', 1, Len(used_q_indices)) = used_q_indices
        /\ op' = "handle_text_input" =>
              /\ Range(used_q_indices') = Range(used_q_indices) \cup { qa_index }
              /\ Len(used_q_indices') <= Len(used_q_indices) + 1
        /\ op' \notin (SessionResets \cup { "handle_text_input" }) =>
              used_q_indices' = used_q_indices
        /\ op' \in SessionResets => used_q_indices' = << >> ]_vars

\* C23 witness: an answer was submitted for a question that was already used, in a
\* session with two used indices.
C23_Witness ==
    /\ op = "handle_text_input"
    /\ Len(used_q_indices) >= 2
    /\ answers > Len(used_q_indices)
    /\ ~session_complete

\* C24: the difficulty stored in the performance record of an answered question is
\* the effective difficulty of that question: its numeric difficulty, else the
\* value its level maps to.
C24_RecordsEffectiveDifficulty ==
    \A k \in 1 .. Len(performance_history) :
        performance_history[k].difficulty =
            EffectiveDifficulty(questions[performance_history[k].question_index + 1])

----------------------------------------------------------------------------
(* Properties of the sessions of one server *)

\* the engine a session reaches through the name adaptive_engine
Observed(t) == engines[ScriptNamespace(t)]

\* C21: no two sessions share an AdaptiveState: a step of one session's script run
\* leaves the engine that every other session observes as it was.
C21_SessionsIsolated ==
    [][ \A t \in SessionIds : actor' # t => Observed(t)' = Observed(t) ]_vars

\* C21 witness: session 2 is in the middle of a script run, with the engine of that
\* run, and session 1, which started its run later, has submitted an answer.
C21_Witness ==
    /\ actor = 1
    /\ sessions[2].run_phase = "main"
    /\ Observed(2) = Some(FreshEngine)
    /\ Observed(1) # None
    /\ Observed(1)[1].performance_history # << >>

----------------------------------------------------------------------------
(* Properties of the level table *)

\* the difficulty the table of levels gives a label
TableDifficulty(level) ==
    IF level \in {"Basic", "Easy"} THEN 3
    ELSE IF level \in {"Intermediate", "Moderate"} THEN 8
    ELSE IF level \in {"Advanced", "Difficult"} THEN 13
    ELSE IF level = "Expert" THEN 18
    ELSE 10

\* the numeric difficulty of a question when it has one, else that of its level
StatedDifficulty(q) ==
    IF q.difficulty # None THEN q.difficulty[1] ELSE TableDifficulty(q.level[1])

\* C25: a candidate's effective difficulty is its numeric difficulty when present,
\* else 3 for Basic/Easy, 8 for Intermediate/Moderate, 13 for Advanced/Difficult, 18
\* for Expert and 10 for any other level: find_next_question selects among candidates
\* by this difficulty, and a pool of candidates with a level only yields a candidate.
C25_EffectiveDifficultyTable ==
    /\ \A k \in 1 .. Len(questions) :
          questions[k].level # None =>
              EffectiveDifficulty(questions[k]) = StatedDifficulty(questions[k])
    /\ op = "find_next_question" =>
          /\ next_question # None
          /\ \A j \in 0 .. Len(questions) - 1 :
                LET mine == Abs(StatedDifficulty(questions[next_question[1] + 1])
                                - current_difficulty)
                    other == Abs(StatedDifficulty(questions[j + 1]) - current_difficulty)
                IN  mine < other \/ (mine = other /\ next_question[1] <= j)

\* C25 witness: of two candidates with a level only, Expert and an unknown level, the
\* second was selected for target 12, being at distance 2 and the first at distance 6.
C25_Witness ==
    /\ op = "find_next_question"
    /\ questions = << Question(None, Some("Expert")), Question(None, Some("Tricky")) >>
    /\ current_difficulty = 12
    /\ next_question = Some(1)

----------------------------------------------------------------------------
(* Properties of the learning trajectory *)

AllScoresEqual(history) ==
    \A i, j \in 1 .. Len(history) : history[i].score = history[j].score

\* C30: create_learning_trajectory returns trend "insufficient_data" with slope 0 and
\* r_squared 0 for fewer than 3 records; for 3 or more records it never divides by
\* zero, and when all scores are equal it reports r_squared = 0 and trend "stable".
C30_TrajectoryEdgeCases ==
    op = "create_learning_trajectory" =>
        LET outcome == analytics[1]
            n == Len(performance_history) IN
        /\ n < 3 =>
              /\ outcome.raised = None
              /\ outcome.returned[1].trend = "insufficient_data"
              /\ outcome.returned[1].slope.num = 0
              /\ outcome.returned[1].r_squared.num = 0
        /\ n >= 3 =>
              /\ outcome.raised = None
              /\ outcome.returned[1].slope.den # 0
              /\ outcome.returned[1].r_squared.den # 0
              /\ outcome.returned[1].trend # "insufficient_data"
              /\ AllScoresEqual(performance_history) =>
                    /\ outcome.returned[1].r_squared.num = 0
                    /\ outcome.returned[1].trend = "stable"

\* C30 witness: the trajectory of a history of three or more equal scores was
\* computed and returned.
C30_Witness ==
    /\ op = "create_learning_trajectory"
    /\ Len(performance_history) >= 3
    /\ AllScoresEqual(performance_history)
    /\ analytics[1].raised = None
    /\ analytics[1].returned[1].r_squared = Zero
    /\ analytics[1].returned[1].trend = "stable"

----------------------------------------------------------------------------
(* Properties of the streak *)

\* C31: in every state between operations consecutive_wrong_same_level is 0 or 1,
\* and so is the streak update_state reports; it never reaches 2, the value the
\* last branch of _generate_recommendations tests for.
C31_StreakAtMostOne ==
    /\ consecutive_wrong_same_level \in { 0, 1 }
    /\ ~ (consecutive_wrong_same_level >= 2)
    /\ op = "update_state" => recommendations[1].consecutive_wrong \in { 0, 1 }

\* C31 witness: two wrong answers in a row at the lowest difficulty, where no drop
\* is possible, and the streak is 0 again.
C31_Witness ==
    /\ op = "update_state"
    /\ Len(attempted_at) >= 2
    /\ LET k == Len(attempted_at) IN
          /\ WrongAt(k - 1) /\ WrongAt(k)
          /\ attempted_at[k - 1] = 1 /\ attempted_at[k] = 1
          /\ DifficultyAfter(k - 1) = 1
    /\ current_difficulty = 1
    /\ consecutive_wrong_same_level = 0

----------------------------------------------------------------------------
(* Frame of the question selector *)

\* C33: find_next_question leaves the engine state (difficulty, streak, history),
\* the question pool and the used indices unchanged, and a second call with the
\* same arguments and state returns the same index as the first.
C33_FindChangesNothing ==
    [][ op' = "find_next_question" =>
          /\ UNCHANGED << current_difficulty, consecutive_wrong_same_level,
                          last_answer_correct, difficulty_path, performance_history >>
          /\ questions' = questions
          /\ used_indices' = used_indices
          /\ next_question' =
                FindNextQuestion(questions', used_indices', current_difficulty')
          /\ op = "find_next_question" => next_question' = next_question ]_vars

\* C33 witness: the selector returned an index of a pool in which another question
\* is unused as well, so that a changed used set would change the next answer.
C33_Witness ==
    /\ op = "find_next_question"
    /\ next_question # None
    /\ \E i \in 0 .. Len(questions) - 1 :
          i # next_question[1] /\ i \notin used_indices
    /\ next_question[1] \notin used_indices

----------------------------------------------------------------------------
(* The two histories of the engine *)

\* C34: difficulty_path and performance_history are identical in every reachable
\* state: the same length and the same records in the same order.
C34_PathEqualsHistory ==
    /\ Len(difficulty_path) = Len(performance_history)
    /\ \A k \in 1 .. Len(performance_history) :
          difficulty_path[k] = performance_history[k]

\* C34 witness: three answers were recorded, the first of them for a question whose
\* difficulty was not the difficulty the engine was at.
C34_Witness ==
    /\ op = "update_state"
    /\ Len(performance_history) = 3
    /\ Len(difficulty_path) = 3
    /\ performance_history[1].difficulty # attempted_at[1]
    /\ difficulty_path[3] = performance_history[3]

----------------------------------------------------------------------------
(* The analytics of an empty history *)

\* C35: on an empty history get_learning_analytics returns total_questions 0,
\* accuracy_rate 0, average_score 0, an empty difficulty_progression, learning_trend
\* "no_data" and no recommendations, and raises nothing (no division by zero).
C35_EmptyHistoryAnalytics ==
    (op = "get_learning_analytics" /\ performance_history = << >>) =>
        /\ analytics[1].raised = None
        /\ analytics[1].value[1].total_questions = 0
        /\ analytics[1].value[1].accuracy_rate.num = 0
        /\ analytics[1].value[1].accuracy_rate.den # 0
        /\ analytics[1].value[1].average_score.num = 0
        /\ analytics[1].value[1].average_score.den # 0
        /\ analytics[1].value[1].difficulty_progression = << >>
        /\ analytics[1].value[1].learning_trend = "no_data"
        /\ analytics[1].value[1].recommendations = << >>

\* C35 witness: the analytics were called on a history that reset_state had emptied
\* after an answer.
C35_Witness ==
    /\ op = "get_learning_analytics"
    /\ performance_history = << >>
    /\ recommendations # None
    /\ analytics[1].raised = None
    /\ analytics[1].value[1].learning_trend = "no_data"

----------------------------------------------------------------------------
(* The legacy controller against the engine *)

\* C32: given the same scores and the same random draws, the legacy controller
\* get_next_question_adaptive and AdaptiveLearningEngine.update_state agree on
\* current_difficulty, consecutive_wrong_same_level and last_answer_correct after
\* every step.
C32_LegacyAgreesWithEngine ==
    /\ session_state.current_difficulty = current_difficulty
    /\ session_state.consecutive_wrong_same_level = consecutive_wrong_same_level
    /\ session_state.last_answer_correct = last_answer_correct

\* C32 witness: both controllers have dropped from 10 and then risen, on a draw,
\* above the difficulty they started from, and have one wrong answer since.
C32_Witness ==
    /\ op = "answer_both"
    /\ Len(attempted_at) >= 4
    /\ \E k \in Calls : DropAt(k)
    /\ \E k \in Calls : CorrectAt(k) /\ DifficultyAfter(k) > attempted_at[k] + 1
    /\ session_state.current_difficulty > 10
    /\ session_state.consecutive_wrong_same_level = 1
    /\ session_state.last_answer_correct = Some(FALSE)

----------------------------------------------------------------------------
(* Properties of the selective mutism support *)

\* the support after n more successful answers
RECURSIVE AfterSuccesses(_, _)
AfterSuccesses(state, n) ==
    IF n = 0
    THEN state
    ELSE LET after == SupportAfter(AfterSuccesses(state, n - 1), TRUE, "speech") IN
         [ confidence_level           |-> after.confidence_level,
           success_streak             |-> after.success_streak,
           progress_milestones        |-> after.progress_milestones,
           communication_methods_used |-> after.communication_methods_used ]

\* C36: after any sequence of update_confidence_level calls confidence_level is an
\* integer of the 1-5 scale, one of 1, 2, 3, 4, 5.
C36_ConfidenceLevelOnScale ==
    \E n \in 1 .. 5 : LevelEquals(confidence_level, n)

\* C37: from every reachable state with confidence_level below 5 an uninterrupted
\* run of successful answers raises the level: at the success that brings
\* success_streak to the threshold of the current level (3, 5, 7, 10 for the levels
\* 1 to 4) the level increases by exactly 1 and exactly one milestone is recorded.
C37_SuccessRunRaisesLevel ==
    LevelBelow(confidence_level, 5) =>
        \E n \in 1 .. 10 :
            LET before == AfterSuccesses(SupportState, n - 1)
                after == AfterSuccesses(SupportState, n)
            IN  /\ before.confidence_level = confidence_level
                /\ after.confidence_level = LevelUp(confidence_level)
                /\ Len(after.progress_milestones) = Len(progress_milestones) + 1
                /\ \E level \in 1 .. 4 :
                      /\ LevelEquals(confidence_level, level)
                      /\ after.success_streak = << 3, 5, 7, 10 >>[level]

----------------------------------------------------------------------------
(* Properties of the evaluator of the selective mutism mode *)

\* the score of the reply before the bonus: the number after SCORE:, or 6 if
\* there is none, clamped into 4..10
ClampedReply(score_match) ==
    LET parsed == IF score_match # None THEN score_match[1] ELSE 6 IN
    IF parsed < 4 THEN 4 ELSE IF parsed > 10 THEN 10 ELSE parsed

\* C38: evaluate_answer_selective_mutism always returns a score in 4..10; for an
\* answer the model has scored it adds 1 (capped at 10) at the confidence levels 3
\* and 4, and 2 (capped at 10) at the highest level 5.
C38_ConfidenceBonus ==
    op = "evaluate_answer_selective_mutism" =>
        LET score == evaluation[1].score
            clamped == ClampedReply(args[1].score_match)
            level == args[1].confidence_level
        IN  /\ score \in 4 .. 10
            /\ (args[1].answered /\ ~ args[1].llm_raises) =>
                  /\ (LevelEquals(level, 3) \/ LevelEquals(level, 4)) =>
                        score = (IF clamped + 1 > 10 THEN 10 ELSE clamped + 1)
                  /\ LevelEquals(level, 5) =>
                        score = (IF clamped + 2 > 10 THEN 10 ELSE clamped + 2)

====
